---- MODULE Spec2Model ----
(***************************************************************************)
(* Model of the ingestion and table-building pipeline of asteroid_analysis *)
(* (src/src/asteroid_analysis/ingest.py and build.py).                     *)
(*                                                                         *)
(* Dates are day ordinals (date.toordinal()); timedelta(days=n) is +n.     *)
(* The ordinals used stay far below date.max, so date arithmetic does not  *)
(* raise OverflowError.                                                    *)
(***************************************************************************)
EXTENDS Integers, Sequences, FiniteSets, TLC

VARIABLES
    \* ---- chunk_date_ranges (a generator) ----
    start_date,      \* argument start_date
    end_date,        \* argument end_date
    days,            \* argument days
    current,         \* local `current`
    yielded,         \* the windows yielded so far, in order
    gen_pc,          \* "off" | "running" | "exhausted" | "raised"
    \* ---- the cache directory raw_dir ----
    files,           \* path -> text of the file at that path (Absent: no file)
    failures_csv,    \* raw_dir/failures.csv: [exists, rows]
    persisted,       \* history: window -> the payload last handed to _write_cache_atomic
    \* ---- one call of fetch_or_load_chunk ----
    pc,              \* position in fetch_or_load_chunk
    window,          \* arguments (start_date, end_date) of the call
    refresh,         \* argument refresh
    entry_files,     \* history: files when the call was entered
    entry_failures,  \* history: failures_csv when the call was entered
    fetcher_calls,   \* history: invocations of the fetcher made by the call
    fetched,         \* what the fetcher returned or raised
    result,          \* the call's return value (a cache path or None)
    ncalls,          \* history: calls of fetch_or_load_chunk entered so far
    \* ---- fetch_chunk ----
    attempt,         \* loop variable `attempt`
    requests,        \* history: session.get calls made by this invocation
    sleeps,          \* history: arguments of time.sleep, in order
    last_status,     \* history: outcome of the latest session.get
    \* ---- a concurrently running reader of the cache directory ----
    reader_seen,     \* what the reader's latest read of a cache path returned
    \* ---- ingest ----
    ingest_pc,       \* "off" | "loop" | "flattened"
    chunks,          \* local `chunks`
    cache_paths,     \* local `cache_paths`
    called,          \* history: the windows fetch_or_load_chunk was called with
    run_entry_failures,   \* history: failures_csv when ingest was entered
    raw_dir_is_default,   \* whether argument raw_dir is the module's RAW_DIR
    default_failures_csv, \* RAW_DIR/failures.csv when raw_dir is another directory
    flattened,       \* the cache paths whose payloads the flattener read
    run,             \* history: number of the current run of ingest
    run_entry_files, \* history: files when the current run was entered
    \* ---- build_dataframe_from_cache, lines 186-265 ----
    fl_pc,           \* "off" | "input" | "done" | "raised"
    data,            \* the payloads _read_cache_payload returned, in order
    orbiting_body,   \* argument orbiting_body
    rows,            \* local `rows`
    fl_raised,       \* the exception that ended the call ("none": no exception)
    \* ---- process_dataframe ----
    build_pc,        \* "off" | "input" | "processed"
    df,              \* argument df: the flattened rows, in order
    objects,         \* returned Objects table
    approaches,      \* returned Approaches table
    duplicate_approach_id_count,  \* approaches.attrs["duplicate_approach_id_count"]
    missing,         \* the required columns that df lacks
    df_approach_id,  \* the column df["approach_id"] (line 145)
    raised,          \* the exception that ended the build (NoError: none)
    \* ---- build_tables ----
    bt_pc,           \* "off" | "start" | "processing" | "raised" | "written"
    outdir,          \* the output directory: [exists, files]
    metadata,        \* the RunMetadata written to metadata.json
    \* ---- compute_aggregates, top_n (lines 207-239) ----
    agg_pc,          \* "off" | "grouped" | "ranking" | "done"
    merged,          \* local `merged`: approaches left-joined to objects
    hazard_rate,     \* local `hazard_rate`: the hazard_rate_size rows
    enriched,        \* local `enriched`: the approaches with their metrics
    group,           \* position of the loops over bodies and metrics
    top_rows         \* local `top_rows`

chunkVars == <<start_date, end_date, days, current, yielded, gen_pc>>
dirVars == <<files, failures_csv, persisted>>
callVars == <<pc, window, refresh, entry_files, entry_failures, fetcher_calls,
              fetched, result, ncalls>>
fetchVars == <<attempt, requests, sleeps, last_status>>

runVars == <<run, run_entry_files>>
flattenVars == <<fl_pc, data, orbiting_body, rows, fl_raised>>

ingestVars == <<ingest_pc, chunks, cache_paths, called, run_entry_failures,
                raw_dir_is_default, default_failures_csv, flattened, runVars, flattenVars>>

aggVars == <<agg_pc, merged, hazard_rate, enriched, group, top_rows>>

buildVars == <<build_pc, df, objects, approaches, duplicate_approach_id_count,
               missing, df_approach_id, raised, bt_pc, outdir, metadata, aggVars>>

vars == <<chunkVars, dirVars, callVars, fetchVars, reader_seen, ingestVars, buildVars>>

(***************************************************************************)
(* Bounds of the model.                                                    *)
(***************************************************************************)
MaxDay == 7          \* chunker inputs: dates are drawn from 1..MaxDay
MaxChunkDays == 3    \* chunker inputs: days is drawn from 1..MaxChunkDays
RangeEnd == 9        \* the cached range is [RangeStart, RangeEnd]
MaxCalls == 2        \* calls of fetch_or_load_chunk made by an arbitrary caller
MaxRows == 3         \* rows of the table handed to process_dataframe
MaxPayloads == 2     \* payloads handed to the flattener

(***************************************************************************)
(* Program constants.                                                      *)
(***************************************************************************)
DefaultDays == 7     \* chunk_date_ranges(..., days: int = 7)
max_retries == 5     \* fetch_chunk: max_retries = 5
RangeStart == 1

Min(a, b) == IF a <= b THEN a ELSE b

(***************************************************************************)
(* chunk_date_ranges                                                       *)
(***************************************************************************)
\* A plausible off-by-one: timedelta(days=days) instead of days - 1.
ChunkEndOffByOne(cur, endd, d) == Min(cur + d, endd)

\* A plausible slip: the final window is not truncated to end_date.
ChunkEndNoTruncate(cur, endd, d) == cur + (d - 1)

\* chunk_end = min(current + timedelta(days=days - 1), end_date)
ChunkEnd(cur, endd, d) == Min(cur + (d - 1), endd)

\* date.max.toordinal(): a date plus a timedelta raises OverflowError when
\* the sum lies after date.max (9999-12-31).
DateMax == 3652059
Overflows(ordinal) == ordinal > DateMax

\* One iteration of the while loop: yield (current, chunk_end), then
\* current = chunk_end + timedelta(days=1). Either addition raises
\* OverflowError past date.max: the first before the window is yielded, the
\* second when the generator is resumed after the yield.
ChunkYield ==
    /\ gen_pc = "running"
    /\ current <= end_date
    /\ IF Overflows(current + (days - 1))
       THEN /\ gen_pc' = "raised"
            /\ UNCHANGED <<current, yielded>>
       ELSE LET chunk_end == ChunkEnd(current, end_date, days)
            IN  /\ yielded' = Append(yielded, <<current, chunk_end>>)
                /\ IF Overflows(chunk_end + 1)
                   THEN gen_pc' = "raised" /\ UNCHANGED current
                   ELSE current' = chunk_end + 1 /\ UNCHANGED gen_pc
    /\ UNCHANGED <<start_date, end_date, days>>
    /\ UNCHANGED <<dirVars, callVars, fetchVars, reader_seen, ingestVars, buildVars>>

\* The while condition fails: the generator is exhausted.
ChunkStop ==
    /\ gen_pc = "running"
    /\ ~(current <= end_date)
    /\ gen_pc' = "exhausted"
    /\ UNCHANGED <<start_date, end_date, days, current, yielded>>
    /\ UNCHANGED <<dirVars, callVars, fetchVars, reader_seen, ingestVars, buildVars>>


\* chunks = list(chunk_date_ranges(start_date, end_date, days)), computed as
\* the generator computes it.
RECURSIVE ChunkListFrom(_, _, _)
ChunkListFrom(cur, endd, d) ==
    IF cur <= endd
    THEN <<<<cur, ChunkEnd(cur, endd, d)>>>>
             \o ChunkListFrom(ChunkEnd(cur, endd, d) + 1, endd, d)
    ELSE <<>>

(***************************************************************************)
(* Documents (decoded JSON values) and file texts.                         *)
(*   type: the Python type of the document ("dict", "list", ...)           *)
(*   neo : the type of doc["near_earth_objects"] ("missing": no such key)  *)
(*   day : the type of the per-day values of near_earth_objects            *)
(*   ver : tells apart payloads of the same shape with different content   *)
(* A text is a sequence of JSON tokens.                                    *)
(***************************************************************************)
NoDoc == [type |-> "none", neo |-> "none", day |-> "none", ver |-> 0]
ValidDoc(v) == [type |-> "dict", neo |-> "dict", day |-> "list", ver |-> v]
\* {"foo": "bar"}
WrongShapeDoc == [type |-> "dict", neo |-> "missing", day |-> "none", ver |-> 0]
\* []
ListDoc == [type |-> "list", neo |-> "none", day |-> "none", ver |-> 0]
\* {"near_earth_objects": {"2024-01-01": "oops"}}
BadDayDoc == [type |-> "dict", neo |-> "dict", day |-> "str", ver |-> 0]
\* {"near_earth_objects": []}
NeoListDoc == [type |-> "dict", neo |-> "list", day |-> "none", ver |-> 0]

\* The bodies a 200 response of the feed may carry.
FetchDocs == {ValidDoc(1), ValidDoc(2), WrongShapeDoc, ListDoc, BadDayDoc}

Absent == [kind |-> "absent", chars |-> <<>>]     \* no file at the path
Partial == [kind |-> "partial", chars |-> <<>>]   \* a file being written
Garbage == [kind |-> "text", chars |-> <<"{", "bad json">>]   \* "{bad json"
NotRead == [kind |-> "unread", chars |-> <<>>]    \* the reader has not read yet

Digits == <<"0", "1", "2", "3", "4", "5", "6", "7", "8", "9">>

\* A plausible slip: an encoder that loses the content under the per-day key.
EncodeLossy(doc) ==
    IF doc.type = "list" THEN <<"[", "]">>
    ELSE IF doc.neo = "missing" THEN <<"{", "foo", ":", "bar", "}">>
    ELSE IF doc.neo = "list" THEN <<"{", "near_earth_objects", ":", "[", "]", "}">>
    ELSE <<"{", "near_earth_objects", ":", "{", "2024-01-01", ":", "[", "0", "]", "}", "}">>

\* The JSON tokens json.dumps writes for a document.
Encode(doc) ==
    IF doc.type = "list" THEN <<"[", "]">>
    ELSE IF doc.neo = "missing" THEN <<"{", "foo", ":", "bar", "}">>
    ELSE IF doc.neo = "list" THEN <<"{", "near_earth_objects", ":", "[", "]", "}">>
    ELSE <<"{", "near_earth_objects", ":", "{", "2024-01-01", ":">>
             \o (IF doc.day = "list" THEN <<"[", Digits[doc.ver + 1], "]">> ELSE <<"oops">>)
             \o <<"}", "}">>

\* json.dumps(payload): the text of a document.
Dumps(doc) == [kind |-> "text", chars |-> Encode(doc)]

\* The document json.loads builds from the tokens of a complete JSON text.
Decode(chars) ==
    IF chars[1] = "[" THEN ListDoc
    ELSE IF chars[2] # "near_earth_objects" THEN WrongShapeDoc
    ELSE IF chars[4] = "[" THEN NeoListDoc
    ELSE IF chars[7] # "[" THEN BadDayDoc
    ELSE ValidDoc(CHOOSE v \in 0..9 : Digits[v + 1] = chars[8])

\* The brackets of the text are closed.
IsComplete(chars) ==
    /\ Len(chars) >= 2
    /\ \/ chars[1] = "[" /\ chars[Len(chars)] = "]"
       \/ chars[1] = "{" /\ chars[Len(chars)] = "}"

\* json.loads(text): the document, or JSONDecodeError for a text that is
\* not a complete JSON document.
Loads(text) ==
    IF text.kind = "text" /\ IsComplete(text.chars)
    THEN [ok |-> TRUE, doc |-> Decode(text.chars)]
    ELSE [ok |-> FALSE, doc |-> NoDoc]

\* cache_path = raw_dir / f"feed_{start}_{end}.json"
CachePath(w) == [start |-> w[1], end |-> w[2], suffix |-> ".json"]
\* temp_path = cache_path.with_suffix(cache_path.suffix + ".tmp")
TempPath(path) == [path EXCEPT !.suffix = path.suffix \o ".tmp"]

None == [start |-> 0, end |-> 0, suffix |-> "None"]

Windows == {ChunkListFrom(RangeStart, RangeEnd, DefaultDays)[i] :
               i \in 1..Len(ChunkListFrom(RangeStart, RangeEnd, DefaultDays))}
Paths == {CachePath(w) : w \in Windows} \cup {TempPath(CachePath(w)) : w \in Windows}

(***************************************************************************)
(* _validate_payload                                                       *)
(***************************************************************************)
\* A plausible slip: only the type of the payload itself is checked.
ValidateErrorTypeOnly(doc) ==
    IF doc.type # "dict" THEN "Invalid payload type" ELSE "ok"

\* "ok", or the message of the ValueError raised.
ValidateError(doc) ==
    IF doc.type # "dict" THEN "Invalid payload type"
    ELSE IF doc.neo = "missing" \/ doc.neo # "dict"
         THEN "Missing or invalid near_earth_objects"
         ELSE "ok"

(***************************************************************************)
(* _write_failure                                                          *)
(***************************************************************************)
\* The error text of a Failure Record: a message, and the HTTP status in it.
Error(msg) == [msg |-> msg, status |-> 0]
ApiError(status) == [msg |-> "API error", status |-> status]
Ok == Error("ok")

HeaderRow == [header |-> TRUE, start_date |-> 0, end_date |-> 0, error |-> Error("error")]
FailureRow(w, error) ==
    [header |-> FALSE, start_date |-> w[1], end_date |-> w[2], error |-> error]
NoFailuresFile == [exists |-> FALSE, rows |-> <<>>]

\* A plausible slip: the file is opened with mode "w" instead of "a".
WriteFailureTruncate(csv, w, error) ==
    [exists |-> TRUE, rows |-> <<HeaderRow, FailureRow(w, error)>>]

\* A plausible slip: the header is written by every write.
WriteFailureHeaderAlways(csv, w, error) ==
    [exists |-> TRUE, rows |-> csv.rows \o <<HeaderRow, FailureRow(w, error)>>]

\* Appends the row; the header is written first when the file does not exist.
WriteFailure(csv, w, error) ==
    [exists |-> TRUE,
     rows |-> (IF csv.exists THEN csv.rows ELSE <<HeaderRow>>)
                  \o <<FailureRow(w, error)>>]

(***************************************************************************)
(* _read_cache_payload                                                     *)
(***************************************************************************)
\* A plausible slip: a wrong-shape entry is rejected without being logged.
ReadCachePayloadQuietSchema(text, csv, w) ==
    IF ~Loads(text).ok
    THEN [payload |-> NoDoc, csv |-> WriteFailure(csv, w, Error("Corrupt cache JSON"))]
    ELSE IF ValidateError(Loads(text).doc) # "ok"
         THEN [payload |-> NoDoc, csv |-> csv]
         ELSE [payload |-> Loads(text).doc, csv |-> csv]

\* The payload read (NoDoc stands for None) and failures.csv afterwards.
ReadCachePayload(text, csv, w) ==
    IF ~Loads(text).ok
    THEN [payload |-> NoDoc, csv |-> WriteFailure(csv, w, Error("Corrupt cache JSON"))]
    ELSE IF ValidateError(Loads(text).doc) # "ok"
         THEN [payload |-> NoDoc,
               csv |-> WriteFailure(csv, w, Error("Invalid cache schema"))]
         ELSE [payload |-> Loads(text).doc, csv |-> csv]

(***************************************************************************)
(* fetch_or_load_chunk, with fetch_chunk as its fetcher                    *)
(***************************************************************************)
NoFetch == [kind |-> "none", doc |-> NoDoc, error |-> Ok]
Returned(doc) == [kind |-> "return", doc |-> doc, error |-> Ok]
Raised(error) == [kind |-> "raise", doc |-> NoDoc, error |-> error]

\* The call is entered: arguments bound, history variables reset.
Enter(w, r) ==
    /\ window' = w
    /\ refresh' = r
    /\ entry_files' = files
    /\ entry_failures' = failures_csv
    /\ fetcher_calls' = 0
    /\ fetched' = NoFetch
    /\ result' = None
    /\ ncalls' = ncalls + 1
    /\ attempt' = 0 /\ requests' = 0 /\ sleeps' = <<>> /\ last_status' = -1
    /\ reader_seen' = NotRead
    /\ pc' = "entered"
    /\ UNCHANGED <<files, failures_csv, persisted>>

\* A plausible slip: the refresh flag is read inverted.
UseCacheInverted(exists, r) == exists /\ r

\* A plausible slip: the refresh flag is ignored.
UseCacheIgnoreRefresh(exists, r) == exists

\* Line 157: cache_path.exists() and not refresh
UseCache(exists, r) == exists /\ ~r

\* Lines 155-160: the cache is consulted unless refresh; a valid entry is
\* returned, an invalid one is logged and the call goes on to the fetcher.
FolcCheckCache ==
    /\ pc = "entered"
    /\ LET cache_path == CachePath(window)
           read == ReadCachePayload(files[cache_path], failures_csv, window)
       IN  IF UseCache(files[cache_path] # Absent, refresh)
           THEN /\ failures_csv' = read.csv
                /\ IF read.payload # NoDoc
                   THEN /\ result' = cache_path
                        /\ pc' = "returned"
                        /\ UNCHANGED fetcher_calls
                   ELSE /\ pc' = "fetching"
                        /\ fetcher_calls' = fetcher_calls + 1
                        /\ UNCHANGED result
           ELSE /\ pc' = "fetching"
                /\ fetcher_calls' = fetcher_calls + 1
                /\ UNCHANGED <<failures_csv, result>>
    /\ UNCHANGED <<files, persisted, window, refresh, entry_files, entry_failures, fetched,
                   ncalls, fetchVars, reader_seen, chunkVars, ingestVars, buildVars>>

(***************************************************************************)
(* fetch_chunk: one iteration of `for attempt in range(max_retries + 1)`.  *)
(* A response is the outcome of session.get: RequestException raised, or a *)
(* status code; the body of a 200 response is the JSON document that       *)
(* response.json() decodes.                                                *)
(***************************************************************************)
RequestException == [status |-> -1, body |-> NoDoc]
Responses ==
    {RequestException}
        \cup {[status |-> st, body |-> NoDoc] : st \in {204, 404, 429, 503}}
        \cup {[status |-> 200, body |-> d] : d \in FetchDocs}

\* A plausible slip: every non-200 status is retried.
IsTransientStatusAll(status) == status # 200

\* status_code == 429 or 500 <= status_code < 600
IsTransientStatus(status) == status = 429 \/ (500 <= status /\ status < 600)

\* A plausible slip: a linear instead of an exponential delay.
BackoffDelayLinear(k) == 2 * k

\* time.sleep(2**attempt)
BackoffDelay(k) == 2 ^ k

\* A plausible off-by-one: one retry too many.
LastAttemptLate(k) == k = max_retries + 1

\* attempt == max_retries
LastAttempt(k) == k = max_retries

FetchAttempt ==
    /\ pc = "fetching"
    /\ \E resp \in Responses :
        /\ requests' = requests + 1
        /\ last_status' = resp.status
        /\ IF resp = RequestException \/ (resp.status # 200 /\ IsTransientStatus(resp.status))
           THEN IF LastAttempt(attempt)
                THEN /\ fetched' = Raised(IF resp = RequestException
                                          THEN Error("Request error")
                                          ELSE ApiError(resp.status))
                     /\ pc' = "fetched"
                     /\ UNCHANGED <<attempt, sleeps>>
                ELSE /\ sleeps' = Append(sleeps, BackoffDelay(attempt))
                     /\ attempt' = attempt + 1
                     /\ UNCHANGED <<fetched, pc>>
           ELSE /\ fetched' = (IF resp.status = 200 THEN Returned(resp.body)
                               ELSE Raised(ApiError(resp.status)))
                /\ pc' = "fetched"
                /\ UNCHANGED <<attempt, sleeps>>
    /\ UNCHANGED <<dirVars, window, refresh, entry_files, entry_failures,
                   fetcher_calls, result, ncalls, reader_seen, chunkVars, ingestVars, buildVars>>

\* Line 163 with an injected fetcher (the `fetcher` parameter): it returns
\* any document or raises any exception.
FetcherErrors == {Error("Request error"), ApiError(404)}

FetcherCall ==
    /\ pc = "fetching"
    /\ fetched' \in {Returned(d) : d \in FetchDocs} \cup {Raised(e) : e \in FetcherErrors}
    /\ pc' = "fetched"
    /\ UNCHANGED <<dirVars, window, refresh, entry_files, entry_failures,
                   fetcher_calls, result, ncalls, fetchVars, reader_seen, chunkVars, ingestVars, buildVars>>

\* fetch_chunk has returned or raised: its locals are gone.
FetchFrameGone ==
    attempt' = 0 /\ requests' = 0 /\ sleeps' = <<>> /\ last_status' = -1

\* A plausible slip: the fetched payload is persisted without validation.
FetchErrorNoValidate(f) == IF f.kind = "raise" THEN f.error ELSE Ok

\* Lines 162-165: "ok", or str(exc) of the exception caught.
FetchError(f) == IF f.kind = "raise" THEN f.error ELSE Error(ValidateError(f.doc))

\* Lines 165-168: a failed fetch is logged and None is returned.
FolcFetchFailed ==
    /\ pc = "fetched"
    /\ FetchError(fetched) # Ok
    /\ failures_csv' = WriteFailure(failures_csv, window, FetchError(fetched))
    /\ result' = None
    /\ pc' = "returned"
    /\ FetchFrameGone
    /\ UNCHANGED <<files, persisted, window, refresh, entry_files, entry_failures,
                   fetcher_calls, fetched, ncalls, reader_seen, chunkVars, ingestVars, buildVars>>

(***************************************************************************)
(* _write_cache_atomic                                                     *)
(***************************************************************************)
\* A plausible slip: the payload is written in place.
WriteTargetInPlace(cache_path) == cache_path

\* The path write_text writes to.
WriteTarget(cache_path) == TempPath(cache_path)

\* Line 142, first half: write_text opens the file, truncating it.
WriteTempOpen ==
    /\ pc = "fetched"
    /\ FetchError(fetched) = Ok
    /\ files' = [files EXCEPT ![WriteTarget(CachePath(window))] = Partial]
    /\ pc' = "tmp_open"
    /\ FetchFrameGone
    /\ UNCHANGED <<failures_csv, persisted, window, refresh, entry_files, entry_failures,
                   fetcher_calls, fetched, result, ncalls, reader_seen, chunkVars, ingestVars, buildVars>>

\* Line 142, second half: the text is written and the file closed.
WriteTempText ==
    /\ pc = "tmp_open"
    /\ files' = [files EXCEPT ![WriteTarget(CachePath(window))] = Dumps(fetched.doc)]
    /\ pc' = "tmp_written"
    /\ UNCHANGED <<failures_csv, persisted, window, refresh, entry_files, entry_failures,
                   fetcher_calls, fetched, result, ncalls, fetchVars, reader_seen,
                   chunkVars, ingestVars, buildVars>>

\* Line 143 and 171: os.replace moves the file onto cache_path in one step;
\* the call returns cache_path.
ReplaceTemp ==
    /\ pc = "tmp_written"
    /\ LET cache_path == CachePath(window)
           temp_path == WriteTarget(cache_path)
       IN  files' = [[files EXCEPT ![temp_path] = Absent]
                        EXCEPT ![cache_path] = files[temp_path]]
    /\ persisted' = [persisted EXCEPT ![window] = fetched.doc]
    /\ result' = CachePath(window)
    /\ pc' = "returned"
    /\ UNCHANGED <<failures_csv, window, refresh, entry_files, entry_failures,
                   fetcher_calls, fetched, ncalls, fetchVars, reader_seen, chunkVars, ingestVars, buildVars>>

(***************************************************************************)
(* Callers of fetch_or_load_chunk and the concurrent reader.               *)
(***************************************************************************)
\* Any caller: any window, any refresh flag.
AnyCall ==
    /\ pc \in {"idle", "returned"}
    /\ ncalls < MaxCalls
    /\ \E w \in Windows, r \in BOOLEAN : Enter(w, r)
    /\ UNCHANGED <<chunkVars, ingestVars, buildVars>>

\* A single call: any window, any refresh flag.
OneCall ==
    /\ pc = "idle"
    /\ \E w \in Windows, r \in BOOLEAN : Enter(w, r)
    /\ UNCHANGED <<chunkVars, ingestVars, buildVars>>

\* Another process reads the call's cache path at any point of the call.
ReaderRead ==
    /\ pc \notin {"off", "idle"}
    /\ reader_seen' = files[CachePath(window)]
    /\ UNCHANGED <<dirVars, callVars, fetchVars, chunkVars, ingestVars, buildVars>>

(***************************************************************************)
(* ingest                                                                  *)
(***************************************************************************)
\* Lines 283-291: the next chunk is handed to fetch_or_load_chunk.
IngestCall ==
    /\ ingest_pc = "loop"
    /\ pc = "idle"
    /\ Len(cache_paths) < Len(chunks)
    /\ Enter(chunks[Len(cache_paths) + 1], refresh)
    /\ called' = Append(called, chunks[Len(cache_paths) + 1])
    /\ UNCHANGED <<buildVars, chunkVars, ingest_pc, chunks, cache_paths, run_entry_failures,
                   raw_dir_is_default, default_failures_csv, flattened, runVars, flattenVars>>

\* A plausible slip: only successful chunks are appended.
IngestAppendSkipNone ==
    /\ ingest_pc = "loop"
    /\ pc = "returned"
    /\ cache_paths' = (IF result = None THEN cache_paths ELSE Append(cache_paths, result))
    /\ pc' = "idle"
    /\ UNCHANGED <<buildVars, chunkVars, dirVars, window, refresh, entry_files, entry_failures,
                   fetcher_calls, fetched, result, ncalls, fetchVars, reader_seen,
                   ingest_pc, chunks, called, run_entry_failures,
                   raw_dir_is_default, default_failures_csv, flattened, runVars, flattenVars>>

\* Line 292: cache_paths.append(cache_path)
IngestAppend ==
    /\ ingest_pc = "loop"
    /\ pc = "returned"
    /\ cache_paths' = Append(cache_paths, result)
    /\ pc' = "idle"
    /\ UNCHANGED <<buildVars, chunkVars, dirVars, window, refresh, entry_files, entry_failures,
                   fetcher_calls, fetched, result, ncalls, fetchVars, reader_seen,
                   ingest_pc, chunks, called, run_entry_failures,
                   raw_dir_is_default, default_failures_csv, flattened, runVars, flattenVars>>

\* build_dataframe_from_cache, lines 178-185: the payloads the flattener
\* reads, in order, and RAW_DIR/failures.csv afterwards. None and missing
\* paths are skipped; an unreadable entry is logged and skipped.
RECURSIVE ReadForFlatten(_, _, _)
ReadForFlatten(paths, fs, csv) ==
    IF paths = <<>> THEN [read |-> <<>>, csv |-> csv]
    ELSE LET cache_path == Head(paths)
             skip == cache_path = None \/ fs[cache_path] = Absent
             got == ReadCachePayload(fs[cache_path], csv,
                                     <<cache_path.start, cache_path.end>>)
             rest == ReadForFlatten(Tail(paths), fs, IF skip THEN csv ELSE got.csv)
         IN  IF skip \/ got.payload = NoDoc THEN rest
             ELSE [read |-> <<cache_path>> \o rest.read, csv |-> rest.csv]

\* Line 294: after the loop the cached payloads are read back and flattened.
\* _read_cache_payload is handed the module's RAW_DIR, not raw_dir.
IngestFlatten ==
    /\ ingest_pc = "loop"
    /\ pc = "idle"
    /\ Len(cache_paths) = Len(chunks)
    /\ LET out == ReadForFlatten(cache_paths, files,
                                 IF raw_dir_is_default THEN failures_csv
                                 ELSE default_failures_csv)
       IN  /\ flattened' = out.read
           /\ IF raw_dir_is_default
              THEN failures_csv' = out.csv /\ UNCHANGED default_failures_csv
              ELSE default_failures_csv' = out.csv /\ UNCHANGED failures_csv
    /\ ingest_pc' = "flattened"
    /\ UNCHANGED <<buildVars, chunkVars, files, persisted, callVars, fetchVars, reader_seen,
                   chunks, cache_paths, called, run_entry_failures, raw_dir_is_default,
                   runVars, flattenVars>>

\* The process running ingest is terminated at any point of the loop: its
\* locals are gone, the files stay as they are.
IngestTerminated ==
    /\ ingest_pc = "loop"
    /\ run = 1
    /\ ingest_pc' = "killed"
    /\ pc' = "idle"
    /\ FetchFrameGone
    /\ UNCHANGED <<buildVars, chunkVars, dirVars, window, refresh, entry_files, entry_failures,
                   fetcher_calls, fetched, result, ncalls, reader_seen,
                   chunks, cache_paths, called, run_entry_failures,
                   raw_dir_is_default, default_failures_csv, flattened, runVars, flattenVars>>

\* ingest is run again over the same range, with refresh=False.
IngestRerun ==
    /\ ingest_pc \in {"flattened", "killed"}
    /\ run = 1
    /\ run' = run + 1
    /\ run_entry_files' = files
    /\ run_entry_failures' = failures_csv
    /\ refresh' = FALSE
    /\ cache_paths' = <<>>
    /\ called' = <<>>
    /\ flattened' = <<>>
    /\ ingest_pc' = "loop"
    /\ UNCHANGED <<buildVars, chunkVars, dirVars, pc, window, entry_files, entry_failures,
                   fetcher_calls, fetched, result, ncalls, fetchVars, reader_seen,
                   chunks, raw_dir_is_default, default_failures_csv, flattenVars>>

\* Between two calls of the loop a cache entry the run has obtained is
\* damaged from outside (truncated, or overwritten with another document).
CacheCorrupted ==
    /\ ingest_pc = "loop"
    /\ pc = "idle"
    /\ \E i \in 1..Len(cache_paths), text \in {Garbage, Dumps(WrongShapeDoc)} :
          /\ cache_paths[i] # None
          /\ files[cache_paths[i]] \notin {Absent, Garbage, Dumps(WrongShapeDoc)}
          /\ files' = [files EXCEPT ![cache_paths[i]] = text]
    /\ UNCHANGED <<buildVars, chunkVars, failures_csv, persisted, callVars, fetchVars,
                   reader_seen, ingestVars>>

FolcStep ==
    \/ FolcCheckCache
    \/ FolcFetchFailed
    \/ WriteTempOpen
    \/ WriteTempText
    \/ ReplaceTemp


(***************************************************************************)
(* build_dataframe_from_cache, lines 186-265: the payloads read from the   *)
(* cache are flattened. A payload is the sequence of the per-day values of *)
(* near_earth_objects, in the order of the mapping. A JSON value carries   *)
(* its type t; "missing" stands for an absent key, "null" for null, "str"  *)
(* for a non-empty string where a list or a mapping is expected.           *)
(***************************************************************************)
Approach(body, epoch, rv, md) ==
    [orbiting_body |-> body, epoch_date_close_approach |-> epoch,
     relative_velocity |-> rv, miss_distance |-> md]
EarthApproach == Approach("Earth", 100, "dict", "dict")
MarsApproach == Approach("Mars", 200, "dict", "missing")

Value(t, items) == [t |-> t, items |-> items]
Asteroid(t, id, ed, cad) ==
    [t |-> t, id |-> id, estimated_diameter |-> ed, close_approach_data |-> cad]

ApproachLists ==
    {<<>>, <<EarthApproach>>, <<MarsApproach>>, <<EarthApproach, MarsApproach>>,
     <<MarsApproach, EarthApproach>>, <<EarthApproach, EarthApproach>>}

\* Object records with every nested structure present or absent.
GoodAsteroids ==
    {Asteroid("dict", 1, "dict", Value("list", l)) : l \in ApproachLists}
        \cup {Asteroid("dict", 2, "missing", Value("list", <<MarsApproach, EarthApproach>>)),
              Asteroid("dict", 2, "dict", Value("missing", <<>>)),
              Asteroid("dict", 2, "dict", Value("null", <<>>))}

\* Object records with a null or malformed nested structure.
OddAsteroids ==
    {Asteroid("dict", 2, "null", Value("list", <<EarthApproach>>)),
     Asteroid("dict", 2, "kilometers_null", Value("list", <<>>)),
     Asteroid("dict", 2, "kilometers_null", Value("list", <<MarsApproach>>)),
     Asteroid("dict", 2, "dict", Value("str", <<>>)),
     Asteroid("dict", 2, "dict", Value("list", <<Approach("Earth", 100, "null", "dict")>>)),
     Asteroid("dict", 2, "dict", Value("list", <<Approach("Mars", 200, "dict", "null")>>)),
     Asteroid("str", 0, "missing", Value("missing", <<>>))}

Buckets ==
    {Value("list", <<>>), Value("null", <<>>), Value("str", <<>>)}
        \cup {Value("list", <<x>>) : x \in GoodAsteroids \cup OddAsteroids}
        \cup {Value("list", <<x, y>>) :
                 x, y \in {Asteroid("dict", 1, "dict", Value("list", <<EarthApproach>>)),
                           Asteroid("dict", 2, "dict", Value("null", <<>>))}}

Payloads ==
    {<<>>} \cup {<<b>> : b \in Buckets}
        \cup {<<b, c>> : b, c \in {Value("list", <<>>),
                                   Value("list", <<Asteroid("dict", 1, "dict",
                                           Value("list", <<MarsApproach, EarthApproach>>))>>)}}

Filters == {"all", "ALL", "Earth", "earth", "Mars"}

\* str.lower()
Lower(str) ==
    CASE str = "ALL" -> "all"
      [] str = "Earth" -> "earth"
      [] str = "Mars" -> "mars"
      [] OTHER -> str

\* A plausible slip: the body is compared case-insensitively as well.
KeepsApproachAnyCase(orbit_body, filter) ==
    Lower(filter) = "all" \/ Lower(orbit_body) = Lower(filter)

\* Lines 176 and 196: include_all or orbit_body == orbiting_body
KeepsApproach(orbit_body, filter) == Lower(filter) = "all" \/ orbit_body = filter

\* Lines 200-244: the row of one approach; None where a key is absent.
FlatRow(asteroid, approach) ==
    [id |-> asteroid.id,
     diameter_km_min |-> IF asteroid.estimated_diameter = "dict" THEN "value" ELSE "None",
     epoch_date_close_approach |-> approach.epoch_date_close_approach,
     velocity_km_s |-> IF approach.relative_velocity = "dict" THEN "value" ELSE "None",
     miss_distance_km |-> IF approach.miss_distance = "dict" THEN "value" ELSE "None",
     orbiting_body |-> approach.orbiting_body]

\* The exception raised while the row is built: None has no attribute get.
RowError(asteroid, approach) ==
    IF \/ asteroid.estimated_diameter = "kilometers_null"
       \/ approach.relative_velocity = "null"
       \/ approach.miss_distance = "null"
    THEN "AttributeError"
    ELSE "none"

Flat(rs, exc) == [rows |-> rs, raised |-> exc]

\* Lines 194-245: the loop over one object's approaches.
RECURSIVE FlattenApproaches(_, _, _)
FlattenApproaches(asteroid, items, filter) ==
    IF items = <<>> THEN Flat(<<>>, "none")
    ELSE IF ~KeepsApproach(Head(items).orbiting_body, filter)
         THEN FlattenApproaches(asteroid, Tail(items), filter)
         ELSE IF RowError(asteroid, Head(items)) # "none"
              THEN Flat(<<>>, RowError(asteroid, Head(items)))
              ELSE LET rest == FlattenApproaches(asteroid, Tail(items), filter)
                   IN  Flat(<<FlatRow(asteroid, Head(items))>> \o rest.rows, rest.raised)

\* Lines 189-193: one object record.
FlattenAsteroid(asteroid, filter) ==
    IF asteroid.t # "dict" THEN Flat(<<>>, "AttributeError")
    ELSE IF asteroid.estimated_diameter = "null" THEN Flat(<<>>, "AttributeError")
    ELSE IF asteroid.close_approach_data.t = "str" THEN Flat(<<>>, "AttributeError")
    ELSE FlattenApproaches(asteroid, asteroid.close_approach_data.items, filter)

RECURSIVE FlattenAsteroids(_, _)
FlattenAsteroids(items, filter) ==
    IF items = <<>> THEN Flat(<<>>, "none")
    ELSE LET first == FlattenAsteroid(Head(items), filter)
         IN  IF first.raised # "none" THEN first
             ELSE LET rest == FlattenAsteroids(Tail(items), filter)
                  IN  Flat(first.rows \o rest.rows, rest.raised)

\* Lines 188-189: one per-day value.
FlattenBucket(bucket, filter) ==
    IF bucket.t = "null" THEN Flat(<<>>, "TypeError")
    ELSE IF bucket.t = "str" THEN Flat(<<>>, "AttributeError")
    ELSE FlattenAsteroids(bucket.items, filter)

RECURSIVE FlattenBuckets(_, _)
FlattenBuckets(buckets, filter) ==
    IF buckets = <<>> THEN Flat(<<>>, "none")
    ELSE LET first == FlattenBucket(Head(buckets), filter)
         IN  IF first.raised # "none" THEN first
             ELSE LET rest == FlattenBuckets(Tail(buckets), filter)
                  IN  Flat(first.rows \o rest.rows, rest.raised)

RECURSIVE FlattenPayloads(_, _)
FlattenPayloads(payloads, filter) ==
    IF payloads = <<>> THEN Flat(<<>>, "none")
    ELSE LET first == FlattenBuckets(Head(payloads), filter)
         IN  IF first.raised # "none" THEN first
             ELSE LET rest == FlattenPayloads(Tail(payloads), filter)
                  IN  Flat(first.rows \o rest.rows, rest.raised)

\* build_dataframe_from_cache from line 186 on: the rows of the frame, or
\* the exception that ends the call.
BuildDataframeFromCache ==
    /\ fl_pc = "input"
    /\ LET out == FlattenPayloads(data, orbiting_body)
       IN  IF out.raised = "none"
           THEN /\ rows' = out.rows
                /\ fl_pc' = "done"
                /\ UNCHANGED fl_raised
           ELSE /\ fl_raised' = out.raised
                /\ fl_pc' = "raised"
                /\ UNCHANGED rows
    /\ UNCHANGED <<data, orbiting_body>>
    /\ UNCHANGED <<chunkVars, dirVars, callVars, fetchVars, reader_seen, buildVars,
                   ingest_pc, chunks, cache_paths, called, run_entry_failures,
                   raw_dir_is_default, default_failures_csv, flattened, runVars>>

(***************************************************************************)
(* process_dataframe and build_tables (build.py).                          *)
(* A numeric or date cell is a number or NaN/NaT; a name is a string or    *)
(* NA; a flag is a boolean or NA. A flattened row carries the object's id  *)
(* and static attributes and one approach's attributes. The name stands    *)
(* for the attributes copied as they are (name, nasa_jpl_url), the         *)
(* diameters for the numeric ones, the hazard flag for both flags.         *)
(***************************************************************************)
Num(v) == [nan |-> FALSE, v |-> v]
NaN == [nan |-> TRUE, v |-> 0]
NA == "<NA>"
Flag(b) == [na |-> FALSE, v |-> b]
NoFlag == [na |-> TRUE, v |-> FALSE]

BaseRow ==
    [id |-> 1,
     name |-> "Eros",
     is_potentially_hazardous_asteroid |-> Flag(FALSE),
     diameter_km_min |-> Num(10),
     diameter_km_max |-> Num(10),
     diameter_m_min |-> Num(10),
     diameter_m_max |-> Num(10),
     orbiting_body |-> "Earth",
     close_approach_date |-> Num(5),
     close_approach_date_full |-> Num(5),
     epoch_date_close_approach |-> Num(100),
     miss_distance_km |-> Num(10),
     velocity_km_s |-> Num(1)]

\* Rows that differ in id, name, epoch and velocity.
InputRows ==
    {[BaseRow EXCEPT !.id = i, !.name = n, !.epoch_date_close_approach = e,
                     !.velocity_km_s = v] :
        i \in {1, 2}, n \in {NA, "Eros"}, e \in {NaN, Num(100)}, v \in {Num(1), Num(2)}}

\* Rows of one object that differ in name, epoch, close approach date and
\* miss distance.
IdentityRows ==
    {[BaseRow EXCEPT !.name = n, !.epoch_date_close_approach = e,
                     !.close_approach_date = d, !.miss_distance_km = m] :
        n \in {NA, "Eros"}, e \in {NaN, Num(100)}, d \in {NaN, Num(5)},
        m \in {Num(10), Num(20)}}

\* Rows that differ in id, name and hazard flag.
ObjectRows ==
    {[BaseRow EXCEPT !.id = i, !.name = n, !.is_potentially_hazardous_asteroid = h] :
        i \in {1, 2}, n \in {NA, "Eros", "433 Eros"},
        h \in {NoFlag, Flag(TRUE), Flag(FALSE)}}

\* Rows that differ in id, miss distance and minimum diameter.
LogRows ==
    {[BaseRow EXCEPT !.id = i, !.miss_distance_km = m, !.diameter_km_min = d] :
        i \in {1, 2}, m \in {NaN, Num(-10), Num(0), Num(10)},
        d \in {NaN, Num(-10), Num(10)}}

\* Rows of one object that differ in the two diameters (min <= max).
DiameterRows ==
    {r \in {[BaseRow EXCEPT !.diameter_km_min = a, !.diameter_km_max = b] :
                a \in {NaN, Num(0), Num(10)}, b \in {NaN, Num(0), Num(10), Num(30)}} :
        r.diameter_km_min.nan \/ r.diameter_km_max.nan
            \/ r.diameter_km_min.v <= r.diameter_km_max.v}

\* A missing id (NaN); the ids of the feed are positive.
NullId == 0

\* Rows that differ in id, orbiting body, hazard flag, velocity and
\* diameter in metres: the midpoint of object 1 is 50 or missing, that of
\* object 2 is 10.
HazardRows ==
    {r \in {[BaseRow EXCEPT !.id = i, !.orbiting_body = b,
                            !.is_potentially_hazardous_asteroid = Flag(h),
                            !.velocity_km_s = v, !.diameter_m_min = d] :
                i \in {1, 2}, b \in {"Earth", "Mars"}, h \in BOOLEAN,
                v \in {Num(1), Num(2)}, d \in {NaN, Num(10), Num(90)}} :
        IF r.id = 1 THEN r.diameter_m_min # Num(10) ELSE r.diameter_m_min = Num(10)}

\* Rows that differ in id (missing, 1 or 2) and velocity.
JoinRows ==
    {[BaseRow EXCEPT !.id = i, !.velocity_km_s = v] :
        i \in {NullId, 1, 2}, v \in {Num(1), Num(2)}}

\* The required columns the model tells apart, in sorted order.
SortedColumns == <<"close_approach_date", "id", "miss_distance_km">>

IsMissing(columns, c) == c \in columns

\* ValueError(f"Missing required columns: {', '.join(missing)}")
NoError == [type |-> "none", columns |-> <<>>]
MissingColumnsError(columns) ==
    [type |-> "ValueError",
     columns |-> SelectSeq(SortedColumns, LAMBDA c : IsMissing(columns, c))]
EmptyInputError == [type |-> "ValueError", columns |-> <<"Input CSV is empty">>]

\* The code of a cell's text in the md5 input.
CellCode(c) == IF c.nan THEN 0 ELSE c.v + 11

\* The first 8 hex digits of a digest.
Hex8(h) == [k \in 1..8 |-> (h \div (16 ^ (8 - k))) % 16]

\* A plausible slip: the digest is taken over the name as well.
StableSuffixWithName(row) ==
    Hex8((((((row.id * 31 + CellCode(row.close_approach_date)) * 31
               + CellCode(row.close_approach_date_full)) * 31
              + CellCode(row.miss_distance_km)) * 31
             + CellCode(row.velocity_km_s)) * 31
            + (IF row.name = NA THEN 0 ELSE 1)) % (16 ^ 7))

\* _stable_suffix: the first 8 hex digits of the md5 of "id|date|full|miss|
\* velocity": a fixed function of these five fields into the 8-digit hex
\* strings (through 16^7 digests here, to stay within TLC's integers).
StableSuffix(row) ==
    Hex8(((((row.id * 31 + CellCode(row.close_approach_date)) * 31
              + CellCode(row.close_approach_date_full)) * 31
             + CellCode(row.miss_distance_km)) * 31
            + CellCode(row.velocity_km_s)) % (16 ^ 7))

\* Lines 138-145: approach_id = str(id) + "_" + (str(int(epoch)), or the
\* stable suffix when the epoch is missing).
ApproachId(row) ==
    IF ~row.epoch_date_close_approach.nan
    THEN [id |-> row.id, kind |-> "epoch", epoch |-> row.epoch_date_close_approach.v,
          digest |-> <<>>]
    ELSE [id |-> row.id, kind |-> "md5", epoch |-> 0, digest |-> StableSuffix(row)]

\* Line 129: astype("boolean").fillna(False).astype(bool)
CoerceFlag(flag) == IF flag.na THEN FALSE ELSE flag.v

\* Lines 131-132: (min + max) / 2; NaN when either is NaN.
DiameterMid(row) ==
    IF row.diameter_km_min.nan \/ row.diameter_km_max.nan THEN NaN
    ELSE Num((row.diameter_km_min.v + row.diameter_km_max.v) \div 2)

\* Line 132: the midpoint in metres.
DiameterMidM(row) ==
    IF row.diameter_m_min.nan \/ row.diameter_m_max.nan THEN NaN
    ELSE Num((row.diameter_m_min.v + row.diameter_m_max.v) \div 2)

\* Lines 133-136: (max - min) / mid, kept as the pair of its terms; NaN
\* when a term is NaN, pd.NA where diameter_mid_km == 0.
NoRatio == [na |-> TRUE, num |-> 0, den |-> 0]
UncertaintyRatio(row) ==
    IF DiameterMid(row).nan \/ DiameterMid(row).v = 0 THEN NoRatio
    ELSE [na |-> FALSE, num |-> row.diameter_km_max.v - row.diameter_km_min.v,
          den |-> DiameterMid(row).v]

\* math.log10(v), kept as the term log10(v); pd.NA otherwise.
NoLog == [na |-> TRUE, log10_of |-> 0]
Log10(v) == [na |-> FALSE, log10_of |-> v]

\* A plausible slip: only negative values are excluded.
SafeLog10Negative(c) == IF c.nan \/ c.v < 0 THEN NoLog ELSE Log10(c.v)

\* _safe_log10, for one value.
SafeLog10(c) == IF c.nan \/ c.v <= 0 THEN NoLog ELSE Log10(c.v)

\* Lines 160-166: the approach columns of one input row.
ApproachRow(row) ==
    [approach_id |-> ApproachId(row),
     id |-> row.id,
     close_approach_date |-> row.close_approach_date,
     close_approach_date_full |-> row.close_approach_date_full,
     epoch_date_close_approach |-> row.epoch_date_close_approach,
     velocity_km_s |-> row.velocity_km_s,
     miss_distance_km |-> row.miss_distance_km,
     orbiting_body |-> row.orbiting_body,
     log_miss_distance_km |-> SafeLog10(row.miss_distance_km),
     is_potentially_hazardous_asteroid |->
         CoerceFlag(row.is_potentially_hazardous_asteroid)]

\* The values of one object's rows, in row order.
GroupRows(frame, id) == SelectSeq(frame, LAMBDA r : r.id = id)

\* A plausible slip: the last non-null value is taken.
RECURSIVE LastNonNull(_, _)
LastNonNull(cells, null) ==
    IF cells = <<>> THEN null
    ELSE IF cells[Len(cells)] # null THEN cells[Len(cells)]
         ELSE LastNonNull(SubSeq(cells, 1, Len(cells) - 1), null)

\* _first_non_null: series.dropna().iloc[0], or the null value.
RECURSIVE FirstNonNull(_, _)
FirstNonNull(cells, null) ==
    IF cells = <<>> THEN null
    ELSE IF Head(cells) # null THEN Head(cells)
         ELSE FirstNonNull(Tail(cells), null)

\* Lines 148-157: one row of the Objects table. Every column is aggregated
\* on its own; the flags were coerced before (line 129), so they have no
\* nulls left.
ObjectRow(frame, id) ==
    LET g == GroupRows(frame, id)
        mid == FirstNonNull([i \in 1..Len(g) |-> DiameterMid(g[i])], NaN)
    IN  [id |-> id,
         name |-> FirstNonNull([i \in 1..Len(g) |-> g[i].name], NA),
         is_potentially_hazardous_asteroid |->
             CoerceFlag(Head(g).is_potentially_hazardous_asteroid),
         diameter_km_min |-> FirstNonNull([i \in 1..Len(g) |-> g[i].diameter_km_min], NaN),
         diameter_km_max |-> FirstNonNull([i \in 1..Len(g) |-> g[i].diameter_km_max], NaN),
         diameter_mid_km |-> mid,
         diameter_mid_m |-> FirstNonNull([i \in 1..Len(g) |-> DiameterMidM(g[i])], NaN),
         diameter_uncertainty_ratio_km |->
             FirstNonNull([i \in 1..Len(g) |-> UncertaintyRatio(g[i])], NoRatio),
         log_diameter_mid_km |-> SafeLog10(mid)]

\* A plausible slip: groupby("id") with the default dropna=True.
GroupKeysDropNa(frame) == {frame[i].id : i \in 1..Len(frame)} \ {NullId}

\* Line 150: groupby("id", dropna=False): a missing id is a group key too.
GroupKeys(frame) == {frame[i].id : i \in 1..Len(frame)}

\* The sorted order of the group keys: a missing key comes last.
KeyBefore(x, y) == IF y = NullId THEN TRUE ELSE (x # NullId /\ x <= y)

\* Lines 148-154: groupby("id") with first-non-null aggregation; the groups
\* come in the sorted order of their keys.
RECURSIVE ObjectsFrom(_, _)
ObjectsFrom(frame, ids) ==
    IF ids = {} THEN <<>>
    ELSE LET id == CHOOSE x \in ids : \A y \in ids : KeyBefore(x, y)
         IN  <<ObjectRow(frame, id)>> \o ObjectsFrom(frame, ids \ {id})

\* approaches.duplicated("approach_id", keep=False)
DuplicateMask(table, i) ==
    \E j \in 1..Len(table) : j # i /\ table[j].approach_id = table[i].approach_id

\* A plausible slip: duplicated("approach_id", keep="first").
ExactDupeSameId(table, i) ==
    \E j \in 1..(i - 1) : table[j].approach_id = table[i].approach_id

\* approaches.duplicated(keep="first"): an earlier row equal in every column.
ExactDupe(table, i) == \E j \in 1..(i - 1) : table[j] = table[i]

RECURSIVE DropExactDupes(_, _)
DropExactDupes(table, i) ==
    IF i > Len(table) THEN <<>>
    ELSE (IF ExactDupe(table, i) THEN <<>> ELSE <<table[i]>>)
             \o DropExactDupes(table, i + 1)

\* A plausible slip: the count set in attrs does not reach the table that
\* is returned once rows are dropped.
HandleDuplicatesAttrsLost(table) ==
    IF ~\E i \in 1..Len(table) : DuplicateMask(table, i)
    THEN [approaches |-> table, count |-> 0]
    ELSE [approaches |-> DropExactDupes(table, 1),
          count |-> IF DropExactDupes(table, 1) # table THEN 0
                    ELSE Cardinality({table[i].approach_id :
                                    i \in {k \in 1..Len(table) : DuplicateMask(table, k)}})]

\* _handle_duplicates: the table returned and attrs' duplicate count.
HandleDuplicates(table) ==
    IF ~\E i \in 1..Len(table) : DuplicateMask(table, i)
    THEN [approaches |-> table, count |-> 0]
    ELSE [approaches |-> DropExactDupes(table, 1),
          count |-> Cardinality({table[i].approach_id :
                                    i \in {k \in 1..Len(table) : DuplicateMask(table, k)}})]

\* process_dataframe: ValueError when a required column is missing (lines
\* 101-103), else the two tables; df gets the approach_id column (line 145).
ProcessDataframe ==
    /\ build_pc = "input"
    /\ IF missing # {}
       THEN /\ build_pc' = "raised"
            /\ raised' = MissingColumnsError(missing)
            /\ UNCHANGED <<objects, approaches, duplicate_approach_id_count, df_approach_id>>
       ELSE /\ LET table == [i \in 1..Len(df) |-> ApproachRow(df[i])]
                   out == HandleDuplicates(table)
               IN  /\ approaches' = out.approaches
                   /\ duplicate_approach_id_count' = out.count
            /\ df_approach_id' = [i \in 1..Len(df) |-> ApproachId(df[i])]
            /\ objects' = ObjectsFrom(df, GroupKeys(df))
            /\ build_pc' = "processed"
            /\ UNCHANGED raised
    /\ UNCHANGED <<df, missing, bt_pc, outdir, metadata, aggVars>>
    /\ UNCHANGED <<chunkVars, dirVars, callVars, fetchVars, reader_seen, ingestVars>>

\* A plausible slip: only the columns are checked before building.
SchemaViolationColumnsOnly(frame, columns) == columns # {}

\* Lines 271 and 274-275: df.empty, or a required column is missing.
SchemaViolation(frame, columns) == Len(frame) = 0 \/ columns # {}

NoOutdir == [exists |-> FALSE, files |-> {}]

\* metadata.build_metadata: the fields of RunMetadata computed from the
\* approaches, the duplicate count handed in and the filter handed in.
NoMetadata ==
    [total_approaches |-> 0, unique_objects |-> 0, hazardous_approaches |-> 0,
     duplicate_approach_id_count |-> 0, orbiting_body_filter |-> "none"]
BuildMetadata(table, filter, count) ==
    [total_approaches |-> Len(table),
     unique_objects |-> Cardinality({table[i].id : i \in 1..Len(table)}),
     hazardous_approaches |->
         Cardinality({i \in 1..Len(table) : table[i].is_potentially_hazardous_asteroid}),
     duplicate_approach_id_count |-> count,
     orbiting_body_filter |-> filter]
OutputFiles ==
    {"objects.parquet", "objects.csv", "approaches.parquet", "approaches.csv",
     "aggregates.parquet", "metadata.json"}

\* df.to_csv (ingest.py:295) followed by pd.read_csv (build.py:270): None
\* is written as an empty field and read back as NaN. The flattened row's
\* diameter_km_min stands for the four diameter columns.
CsvCell(cell, v) == IF cell = "None" THEN NaN ELSE Num(v)
CsvRow(flat) ==
    [BaseRow EXCEPT !.id = flat.id,
                    !.diameter_km_min = CsvCell(flat.diameter_km_min, 10),
                    !.diameter_km_max = CsvCell(flat.diameter_km_min, 10),
                    !.diameter_m_min = CsvCell(flat.diameter_km_min, 10),
                    !.diameter_m_max = CsvCell(flat.diameter_km_min, 10),
                    !.epoch_date_close_approach = Num(flat.epoch_date_close_approach),
                    !.velocity_km_s = CsvCell(flat.velocity_km_s, 1),
                    !.miss_distance_km = CsvCell(flat.miss_distance_km, 10),
                    !.orbiting_body = flat.orbiting_body]

\* cli.all_cmd, lines 117-126: ingest has written the flattened rows to the
\* CSV; build_tables is called on that file.
AllCmdBuild ==
    /\ fl_pc = "done"
    /\ bt_pc = "off"
    /\ build_pc = "off"
    /\ df' = [i \in 1..Len(rows) |-> CsvRow(rows[i])]
    /\ bt_pc' = "start"
    /\ UNCHANGED <<build_pc, objects, approaches, duplicate_approach_id_count, missing,
                   df_approach_id, raised, outdir, metadata, aggVars>>
    /\ UNCHANGED <<chunkVars, dirVars, callVars, fetchVars, reader_seen, ingestVars>>

\* build_tables, lines 270-280: the input is read and checked, then handed
\* to process_dataframe.
BuildTablesRead ==
    /\ bt_pc = "start"
    /\ IF SchemaViolation(df, missing)
       THEN /\ bt_pc' = "raised"
            /\ raised' = (IF Len(df) = 0 THEN EmptyInputError
                          ELSE MissingColumnsError(missing))
            /\ UNCHANGED build_pc
       ELSE /\ bt_pc' = "processing"
            /\ build_pc' = "input"
            /\ UNCHANGED raised
    /\ UNCHANGED <<df, objects, approaches, duplicate_approach_id_count, missing,
                   df_approach_id, outdir, metadata, aggVars>>
    /\ UNCHANGED <<chunkVars, dirVars, callVars, fetchVars, reader_seen, ingestVars>>

\* build_tables, lines 282-305: the output directory is created and the
\* tables, the aggregates and the metadata are written.
BuildTablesWrite ==
    /\ bt_pc = "processing"
    /\ build_pc = "processed"
    /\ outdir' = [exists |-> TRUE, files |-> outdir.files \cup OutputFiles]
    /\ metadata' = BuildMetadata(approaches, "all", duplicate_approach_id_count)
    /\ bt_pc' = "written"
    /\ UNCHANGED <<build_pc, df, objects, approaches, duplicate_approach_id_count, missing,
                   df_approach_id, raised, aggVars>>
    /\ UNCHANGED <<chunkVars, dirVars, callVars, fetchVars, reader_seen, ingestVars>>

(***************************************************************************)
(* compute_aggregates, lines 175-205: the join, the size bins of           *)
(* features.enrich and the hazard_rate_size rows.                          *)
(***************************************************************************)
\* The object columns of a joined row whose id has no row in objects.
NoObject == [name |-> NA, diameter_mid_m |-> NaN, diameter_mid_km |-> NaN]

MergedRow(approach, object) ==
    [approach |-> approach, name |-> object.name,
     diameter_mid_m |-> object.diameter_mid_m,
     diameter_mid_km |-> object.diameter_mid_km]

\* approaches.merge(objects[[...]], on="id", how="left"): the left rows in
\* their order, each once per right row with an equal id (a missing id
\* equals a missing id), or once with nulls when there is none.
RECURSIVE LeftMerge(_, _)
LeftMerge(left, right) ==
    IF left = <<>> THEN <<>>
    ELSE LET matches == SelectSeq(right, LAMBDA o : o.id = Head(left).id)
         IN  (IF matches = <<>> THEN <<MergedRow(Head(left), NoObject)>>
              ELSE [k \in 1..Len(matches) |-> MergedRow(Head(left), matches[k])])
                 \o LeftMerge(Tail(left), right)

\* features.enrich, lines 7-8 and 34-40: pd.cut(diameter_mid_m, bins=SIZE_BINS_M,
\* labels=SIZE_LABELS_M, right=False); a missing diameter has no bin.
SizeLabels == {"<50m", "50-140m", "140-500m", "500m-1km", ">1km"}
NoBin == "NaN"
SizeBin(diameter_mid_m) ==
    IF diameter_mid_m.nan THEN NoBin
    ELSE IF diameter_mid_m.v < 50 THEN "<50m"
    ELSE IF diameter_mid_m.v < 140 THEN "50-140m"
    ELSE IF diameter_mid_m.v < 500 THEN "140-500m"
    ELSE IF diameter_mid_m.v < 1000 THEN "500m-1km"
    ELSE ">1km"

\* The key of a joined row in groupby(["orbiting_body", "size_bin_m"]).
GroupKey(row) == <<row.approach.orbiting_body, SizeBin(row.diameter_mid_m)>>

\* A plausible slip: the hazardous objects of the group are counted.
CountHazardousObjects(frame, members) ==
    Cardinality({frame[i].approach.id :
                    i \in {k \in members :
                              frame[k].approach.is_potentially_hazardous_asteroid}})

\* hazardous=("is_potentially_hazardous_asteroid", "sum") over one group.
CountHazardous(frame, members) ==
    Cardinality({i \in members : frame[i].approach.is_potentially_hazardous_asteroid})

\* Line 204: hazardous / total, kept as the pair of its terms; 0 / 0 is NaN.
Rate(hazardous, total) ==
    IF total = 0 THEN [nan |-> TRUE, num |-> 0, den |-> 0]
    ELSE [nan |-> FALSE, num |-> hazardous, den |-> total]

\* Lines 196-205: groupby(..., dropna=False, observed=False): one row for
\* every pair of a body category and a size label, and for every key that
\* occurs (a missing size bin included).
HazardRate(frame) ==
    LET keys == ({frame[i].approach.orbiting_body : i \in 1..Len(frame)} \X SizeLabels)
                    \cup {GroupKey(frame[i]) : i \in 1..Len(frame)}
        members(k) == {i \in 1..Len(frame) : GroupKey(frame[i]) = k}
    IN  {[orbiting_body |-> k[1], size_bin_m |-> k[2],
          total |-> Cardinality(members(k)),
          hazardous |-> CountHazardous(frame, members(k)),
          hazard_rate |-> Rate(CountHazardous(frame, members(k)),
                               Cardinality(members(k)))] : k \in keys}

\* compute_aggregates(approaches, objects), lines 175-205.
ComputeAggregates ==
    /\ build_pc = "processed"
    /\ agg_pc = "off"
    /\ merged' = LeftMerge(approaches, objects)
    /\ hazard_rate' = HazardRate(LeftMerge(approaches, objects))
    /\ agg_pc' = "grouped"
    /\ UNCHANGED <<enriched, group, top_rows>>
    /\ UNCHANGED <<build_pc, df, objects, approaches, duplicate_approach_id_count,
                   missing, df_approach_id, raised, bt_pc, outdir, metadata>>
    /\ UNCHANGED <<chunkVars, dirVars, callVars, fetchVars, reader_seen, ingestVars>>

(***************************************************************************)
(* compute_aggregates, lines 207-239: the top_n rows. A row of `enriched`  *)
(* carries its orbiting body and the four metric columns; top_rows holds,  *)
(* for each (body, metric) ranked, the original positions of the rows.     *)
(***************************************************************************)
\* features.enrich: diameter_mid_m ** 3 * (velocity_km_s * 1000) ** 2
EnergyProxy(diameter_mid_m, velocity_km_s) ==
    (diameter_mid_m ^ 3) * ((velocity_km_s * 1000) ^ 2)

EnrichedRows ==
    {[orbiting_body |-> b, miss_distance_km |-> m, diameter_mid_km |-> d,
      velocity_km_s |-> 1, energy_proxy |-> EnergyProxy(d, 1)] :
        b \in {"Earth", "Mars"}, m \in {1, 2}, d \in {1, 2}}

\* groupby("orbiting_body", observed=False): the categories, sorted.
Bodies == <<"Earth", "Mars">>

\* Line 208-213: (metric_name, metric_col, ascending)
Metrics ==
    <<[name |-> "closest", col |-> "miss_distance_km", ascending |-> TRUE],
      [name |-> "largest", col |-> "diameter_mid_km", ascending |-> FALSE],
      [name |-> "fastest", col |-> "velocity_km_s", ascending |-> FALSE],
      [name |-> "energy_proxy", col |-> "energy_proxy", ascending |-> FALSE]>>

TopLimit == 50

MetricValue(row, col) ==
    CASE col = "miss_distance_km" -> row.miss_distance_km
      [] col = "diameter_mid_km" -> row.diameter_mid_km
      [] col = "velocity_km_s" -> row.velocity_km_s
      [] col = "energy_proxy" -> row.energy_proxy

GroupBody(k) == Bodies[((k - 1) \div Len(Metrics)) + 1]
GroupMetric(k) == Metrics[((k - 1) % Len(Metrics)) + 1]

\* The positions in `frame` of the rows of one body.
Subset(frame, body) == {i \in 1..Len(frame) : frame[i].orbiting_body = body}

\* The metric values along `order` are sorted in the direction asked for.
InMetricOrder(frame, order, metric) ==
    \A i, j \in 1..Len(order) :
        i < j =>
            IF metric.ascending
            THEN MetricValue(frame[order[i]], metric.col)
                     <= MetricValue(frame[order[j]], metric.col)
            ELSE MetricValue(frame[order[i]], metric.col)
                     >= MetricValue(frame[order[j]], metric.col)

\* subset.sort_values(metric_col, ascending=ascending): the default kind is
\* "quicksort", which is not stable, so rows with equal metric values may
\* come out in any order.
SortValues(frame, positions, metric) ==
    {order \in [1..Cardinality(positions) -> positions] :
        /\ \A i, j \in 1..Cardinality(positions) : order[i] = order[j] => i = j
        /\ InMetricOrder(frame, order, metric)}

\* .head(50)
Head50(order) == SubSeq(order, 1, Min(TopLimit, Len(order)))

\* Lines 214-237: one iteration of the loops over bodies and metrics.
RankGroup ==
    /\ agg_pc = "ranking"
    /\ group <= Len(Bodies) * Len(Metrics)
    /\ \E order \in SortValues(enriched, Subset(enriched, GroupBody(group)),
                               GroupMetric(group)) :
          LET ranked == Head50(order)
          IN  top_rows' =
                  IF ranked = <<>> THEN top_rows
                  ELSE Append(top_rows, [orbiting_body |-> GroupBody(group),
                                         metric |-> GroupMetric(group).name,
                                         ranked |-> ranked])
    /\ group' = group + 1
    /\ UNCHANGED <<agg_pc, merged, hazard_rate, enriched>>
    /\ UNCHANGED <<build_pc, df, objects, approaches, duplicate_approach_id_count,
                   missing, df_approach_id, raised, bt_pc, outdir, metadata>>
    /\ UNCHANGED <<chunkVars, dirVars, callVars, fetchVars, reader_seen, ingestVars>>

\* Line 239: the loops are over, top_df is the concatenation of top_rows.
RankDone ==
    /\ agg_pc = "ranking"
    /\ group > Len(Bodies) * Len(Metrics)
    /\ agg_pc' = "done"
    /\ UNCHANGED <<merged, hazard_rate, enriched, group, top_rows>>
    /\ UNCHANGED <<build_pc, df, objects, approaches, duplicate_approach_id_count,
                   missing, df_approach_id, raised, bt_pc, outdir, metadata>>
    /\ UNCHANGED <<chunkVars, dirVars, callVars, fetchVars, reader_seen, ingestVars>>

(***************************************************************************)
(* Initial states and specifications.                                      *)
(***************************************************************************)
ChunkInit ==
    /\ start_date \in 1..MaxDay
    /\ end_date \in 0..MaxDay
    /\ days \in 1..MaxChunkDays
    /\ current = start_date
    /\ yielded = <<>>
    /\ gen_pc = "running"

\* chunk_date_ranges is called with dates at the end of the calendar.
ChunkEdgeInit ==
    /\ start_date \in (DateMax - MaxDay)..DateMax
    /\ end_date \in (DateMax - MaxDay)..DateMax
    /\ days \in 1..MaxChunkDays
    /\ current = start_date
    /\ yielded = <<>>
    /\ gen_pc = "running"

ChunkIdle ==
    /\ start_date = 0 /\ end_date = 0 /\ days = 0
    /\ current = 0 /\ yielded = <<>> /\ gen_pc = "off"

CallIdle(p, refreshes) ==
    /\ pc = p
    /\ window = <<0, 0>>
    /\ refresh \in refreshes
    /\ entry_files = files
    /\ entry_failures = failures_csv
    /\ fetcher_calls = 0
    /\ fetched = NoFetch
    /\ result = None
    /\ ncalls = 0
    /\ attempt = 0 /\ requests = 0 /\ sleeps = <<>> /\ last_status = -1
    /\ reader_seen = NotRead

\* The texts a cache entry may hold before a run: a payload cached earlier,
\* or a file corrupted from outside ("{bad json", {"foo": "bar"}).
InitialTexts == {Absent, Garbage, Dumps(WrongShapeDoc), Dumps(ValidDoc(1))}

\* failures.csv before a run: absent, or left by an earlier run.
InitialFailures ==
    {NoFailuresFile,
     WriteFailure(NoFailuresFile, <<RangeStart, RangeStart>>, Error("Request error"))}

DirInit ==
    /\ files \in [Paths -> InitialTexts]
    /\ \A w \in Windows : files[TempPath(CachePath(w))] = Absent
    /\ failures_csv \in InitialFailures
    /\ persisted = [w \in Windows |-> NoDoc]

FlattenIdle ==
    /\ fl_pc = "off"
    /\ data = <<>>
    /\ orbiting_body = "all"
    /\ rows = <<>>
    /\ fl_raised = "none"

IngestOff ==
    /\ ingest_pc = "off"
    /\ chunks = <<>>
    /\ cache_paths = <<>>
    /\ called = <<>>
    /\ run_entry_failures = failures_csv
    /\ raw_dir_is_default = TRUE
    /\ default_failures_csv = NoFailuresFile
    /\ flattened = <<>>
    /\ run = 1
    /\ run_entry_files = files

IngestIdle == IngestOff /\ FlattenIdle

\* build_dataframe_from_cache has read up to MaxPayloads payloads.
FlattenInit ==
    /\ fl_pc = "input"
    /\ \E n \in 0..MaxPayloads : data \in [1..n -> Payloads]
    /\ orbiting_body \in Filters
    /\ rows = <<>>
    /\ fl_raised = "none"

\* ingest(start_date, end_date, ..., refresh, raw_dir) is entered with
\* NASA_API_KEY set; lines 280-281.
IngestEnds == {RangeStart - 1, RangeStart + DefaultDays - 1, RangeEnd}

IngestInit ==
    /\ ingest_pc = "loop"
    /\ \E e \in IngestEnds : chunks = ChunkListFrom(RangeStart, e, DefaultDays)
    /\ cache_paths = <<>>
    /\ called = <<>>
    /\ run_entry_failures = failures_csv
    /\ raw_dir_is_default \in BOOLEAN
    /\ default_failures_csv = NoFailuresFile
    /\ flattened = <<>>
    /\ run = 1
    /\ run_entry_files = files
    /\ FlattenIdle

AggIdle ==
    /\ agg_pc = "off"
    /\ merged = <<>>
    /\ hazard_rate = {}
    /\ enriched = <<>>
    /\ group = 0
    /\ top_rows = <<>>

ProcessIdle ==
    /\ build_pc = "off"
    /\ df = <<>>
    /\ objects = <<>>
    /\ approaches = <<>>
    /\ duplicate_approach_id_count = 0
    /\ missing = {}
    /\ df_approach_id = <<>>
    /\ raised = NoError
    /\ bt_pc = "off"
    /\ outdir = NoOutdir
    /\ metadata = NoMetadata

\* compute_aggregates has merged and enriched 1..MaxRows approaches.
AggInit ==
    /\ agg_pc = "ranking"
    /\ merged = <<>>
    /\ hazard_rate = {}
    /\ \E n \in 1..MaxRows : enriched \in [1..n -> EnrichedRows]
    /\ group = 1
    /\ top_rows = <<>>

BuildIdle ==
    /\ build_pc = "off"
    /\ df = <<>>
    /\ objects = <<>>
    /\ approaches = <<>>
    /\ duplicate_approach_id_count = 0
    /\ missing = {}
    /\ df_approach_id = <<>>
    /\ raised = NoError
    /\ bt_pc = "off"
    /\ outdir = NoOutdir
    /\ metadata = NoMetadata
    /\ AggIdle

\* process_dataframe is called with a table of 1..MaxRows rows drawn from
\* `frames` that has every required column.
BuildEnter(frames) ==
    /\ build_pc = "input"
    /\ \E n \in 1..MaxRows : df \in [1..n -> frames]
    /\ objects = <<>>
    /\ approaches = <<>>
    /\ duplicate_approach_id_count = 0
    /\ missing = {}
    /\ df_approach_id = <<>>
    /\ raised = NoError
    /\ bt_pc = "off"
    /\ outdir = NoOutdir
    /\ metadata = NoMetadata
    /\ AggIdle

BuildInit == BuildEnter(InputRows)

\* build_tables is called on an input of 0..MaxRows rows that may lack
\* required columns, or process_dataframe is called on such a table.
TablesInit ==
    /\ \/ bt_pc = "start" /\ build_pc = "off"
       \/ bt_pc = "off" /\ build_pc = "input"
    /\ \E n \in 0..MaxRows : df \in [1..n -> {r \in LogRows : r.diameter_km_min = NaN}]
    /\ missing \in SUBSET {SortedColumns[i] : i \in 1..Len(SortedColumns)}
    /\ objects = <<>>
    /\ approaches = <<>>
    /\ duplicate_approach_id_count = 0
    /\ df_approach_id = <<>>
    /\ raised = NoError
    /\ outdir = NoOutdir
    /\ metadata = NoMetadata
    /\ AggIdle

DirIdle ==
    /\ files = [p \in {} |-> Absent]
    /\ failures_csv = NoFailuresFile
    /\ persisted = [w \in Windows |-> NoDoc]

\* A cache directory in which every entry is absent or valid.
CleanDirInit ==
    /\ DirInit
    /\ \A w \in Windows : files[CachePath(w)] \in {Absent, Dumps(ValidDoc(1))}

Init == ChunkIdle /\ DirInit /\ CallIdle("idle", {FALSE}) /\ IngestIdle /\ BuildIdle

\* Any sequence of calls of fetch_or_load_chunk with an injected fetcher.
Next == AnyCall \/ FolcStep \/ FetcherCall

Spec == Init /\ [][Next]_vars

InitClean == ChunkIdle /\ CleanDirInit /\ CallIdle("idle", {FALSE}) /\ IngestIdle /\ BuildIdle

SpecClean == InitClean /\ [][Next]_vars

\* One call of fetch_or_load_chunk with the default fetcher, fetch_chunk.
FetchNext == OneCall \/ FolcStep \/ FetchAttempt

SpecFetch == Init /\ [][FetchNext]_vars

\* One call of fetch_or_load_chunk while another process reads the cache.
ReaderNext == OneCall \/ FolcStep \/ FetcherCall \/ ReaderRead

SpecReader == Init /\ [][ReaderNext]_vars

ChunkNext == ChunkYield \/ ChunkStop

InitChunk == ChunkInit /\ DirIdle /\ CallIdle("off", {FALSE}) /\ IngestIdle /\ BuildIdle

SpecChunk == InitChunk /\ [][ChunkNext]_vars

\* chunk_date_ranges called with dates up to date.max.
InitChunkEdge == ChunkEdgeInit /\ DirIdle /\ CallIdle("off", {FALSE}) /\ IngestIdle /\ BuildIdle

SpecChunkEdge == InitChunkEdge /\ [][ChunkNext]_vars

\* A run of ingest, with fetch_chunk as the fetcher.
IngestNext == IngestCall \/ FolcStep \/ FetchAttempt \/ IngestAppend \/ IngestFlatten

InitIngest == ChunkIdle /\ DirInit /\ CallIdle("idle", BOOLEAN) /\ IngestInit /\ BuildIdle

SpecIngest == InitIngest /\ [][IngestNext]_vars

\* Two runs of ingest over the same range: the first ends or is terminated,
\* the second has refresh=False. The fetcher's outcome is any return or raise.
ResumeNext ==
    \/ IngestCall
    \/ FolcStep
    \/ FetcherCall
    \/ IngestAppend
    \/ IngestFlatten
    \/ IngestTerminated
    \/ IngestRerun

\* The first run starts with no failures.csv, in the default raw_dir.
InitResume == InitIngest /\ raw_dir_is_default /\ failures_csv = NoFailuresFile

SpecResume == InitResume /\ [][ResumeNext]_vars

\* A run of ingest in any cache directory, whose entries may be damaged
\* from outside while the run is under way.
AuditNext ==
    \/ IngestCall
    \/ FolcStep
    \/ FetcherCall
    \/ IngestAppend
    \/ IngestFlatten
    \/ CacheCorrupted

SpecAudit == InitIngest /\ [][AuditNext]_vars

\* build_dataframe_from_cache applied to payloads the validator accepts.
FlattenNext == BuildDataframeFromCache

InitFlatten == ChunkIdle /\ DirIdle /\ CallIdle("off", {FALSE}) /\ IngestOff /\ FlattenInit /\ BuildIdle

SpecFlatten == InitFlatten /\ [][FlattenNext]_vars

\* process_dataframe applied to any table of at most MaxRows rows.
BuildNext == ProcessDataframe

InitBuild == ChunkIdle /\ DirIdle /\ CallIdle("off", {FALSE}) /\ IngestIdle /\ BuildInit

SpecBuild == InitBuild /\ [][BuildNext]_vars

\* process_dataframe applied to rows of one object that differ in the
\* inputs of approach_id.
InitIdentity ==
    ChunkIdle /\ DirIdle /\ CallIdle("off", {FALSE}) /\ IngestIdle /\ BuildEnter(IdentityRows)

SpecIdentity == InitIdentity /\ [][BuildNext]_vars

\* process_dataframe applied to rows that differ in the static attributes.
InitObjects ==
    ChunkIdle /\ DirIdle /\ CallIdle("off", {FALSE}) /\ IngestIdle /\ BuildEnter(ObjectRows)

SpecObjects == InitObjects /\ [][BuildNext]_vars

\* process_dataframe applied to rows that differ in the sources of the
\* log10 columns.
InitLogs ==
    ChunkIdle /\ DirIdle /\ CallIdle("off", {FALSE}) /\ IngestIdle /\ BuildEnter(LogRows)

SpecLogs == InitLogs /\ [][BuildNext]_vars

\* process_dataframe applied to rows of one object that differ in the
\* diameters.
InitDiameters ==
    ChunkIdle /\ DirIdle /\ CallIdle("off", {FALSE}) /\ IngestIdle /\ BuildEnter(DiameterRows)

SpecDiameters == InitDiameters /\ [][BuildNext]_vars

\* process_dataframe followed by compute_aggregates, as in build_tables.
HazardNext == ProcessDataframe \/ ComputeAggregates

InitHazard ==
    ChunkIdle /\ DirIdle /\ CallIdle("off", {FALSE}) /\ IngestIdle /\ BuildEnter(HazardRows)

SpecHazard == InitHazard /\ [][HazardNext]_vars

InitJoin ==
    ChunkIdle /\ DirIdle /\ CallIdle("off", {FALSE}) /\ IngestIdle /\ BuildEnter(JoinRows)

SpecJoin == InitJoin /\ [][HazardNext]_vars

\* The top_n part of compute_aggregates.
AggNext == RankGroup \/ RankDone

InitAggregates ==
    ChunkIdle /\ DirIdle /\ CallIdle("off", {FALSE}) /\ IngestIdle /\ ProcessIdle /\ AggInit

SpecAggregates == InitAggregates /\ [][AggNext]_vars

\* build_tables, and process_dataframe called on its own.
TablesNext ==
    \/ BuildTablesRead
    \/ ProcessDataframe
    \/ BuildTablesWrite

InitTables == ChunkIdle /\ DirIdle /\ CallIdle("off", {FALSE}) /\ IngestIdle /\ TablesInit

SpecTables == InitTables /\ [][TablesNext]_vars

\* cli.all_cmd: the cached payloads are flattened with the filter asked
\* for, and the tables are built from the rows.
PipelineNext ==
    \/ BuildDataframeFromCache
    \/ AllCmdBuild
    \/ BuildTablesRead
    \/ ProcessDataframe
    \/ BuildTablesWrite

SpecPipeline == InitFlatten /\ [][PipelineNext]_vars

(***************************************************************************)
(* C1: for start_date <= end_date and days >= 1 the windows yielded by     *)
(* chunk_date_ranges are in increasing order, contiguous and               *)
(* non-overlapping; the first starts at start_date, none extends past      *)
(* end_date, every window but the last spans exactly `days` days, and once *)
(* the generator is exhausted the last window ends at end_date (so the     *)
(* windows cover exactly [start_date, end_date]).                          *)
(***************************************************************************)
DaysOf(w) == w[1]..w[2]

IsValidText(text) == Loads(text).ok /\ ValidateError(Loads(text).doc) = "ok"

\* The Failure Records of failures.csv: its rows without the header.
Records(csv) == SelectSeq(csv.rows, LAMBDA row : ~row.header)

IsPrefix(s, t) == Len(s) <= Len(t) /\ SubSeq(t, 1, Len(s)) = s

\* The error logged for an unreadable cache entry.
CacheErrors == {Error("Corrupt cache JSON"), Error("Invalid cache schema")}

\* The call found a cache entry it had to consult and could not use.
EntryInvalid ==
    /\ ~refresh
    /\ entry_files[CachePath(window)] # Absent
    /\ ~IsValidText(entry_files[CachePath(window)])

\* The call found a valid cache entry and was not asked to refresh.
EntryHit ==
    /\ ~refresh
    /\ entry_files[CachePath(window)] # Absent
    /\ IsValidText(entry_files[CachePath(window)])

(***************************************************************************)
(* C2: from a cache directory in which every window's file is absent or    *)
(* valid, after any sequence of fetch_or_load_chunk calls (any window, any *)
(* refresh flag, any fetcher outcome) every window's file at its final     *)
(* path is absent or holds a payload that _validate_payload accepts.       *)
(***************************************************************************)
C2_CacheEntryInvariant ==
    \A w \in Windows :
        files[CachePath(w)] = Absent \/ IsValidText(files[CachePath(w)])

\* A second call has failed on an invalid payload after an earlier call
\* has replaced an entry.
C2_Witness ==
    /\ ncalls = 2
    /\ pc = "returned"
    /\ result = None
    /\ fetched = Returned(WrongShapeDoc)
    /\ \E w \in Windows : files[CachePath(w)] = Dumps(ValidDoc(2))

(***************************************************************************)
(* C3: while fetch_or_load_chunk persists a payload, a reader of the       *)
(* window's final cache path sees, at every interleaving point, the        *)
(* previous content (or no file) or the complete new payload, never a      *)
(* partial file: partial content exists only at the '.tmp' path, and the   *)
(* new payload appears at the final path only with the replace step.       *)
(***************************************************************************)
C3_AtomicPersist ==
    /\ \A w \in Windows : files[CachePath(w)] # Partial
    /\ reader_seen # Partial
    /\ (pc # "idle" /\ reader_seen # NotRead) =>
          \/ reader_seen = entry_files[CachePath(window)]
          \/ /\ pc = "returned"
             /\ fetched.kind = "return"
             /\ result = CachePath(window)
             /\ reader_seen = Dumps(fetched.doc)

\* The reader has read the old entry while the new payload is half written.
C3_Witness ==
    /\ pc = "tmp_open"
    /\ files[TempPath(CachePath(window))] = Partial
    /\ reader_seen = Dumps(ValidDoc(1))
    /\ fetched = Returned(ValidDoc(2))

(***************************************************************************)
(* C4: a call with refresh false whose cache file exists and is valid      *)
(* invokes the fetcher zero times, returns the cache path and leaves the   *)
(* cache files and the failure log unchanged; in every other case          *)
(* (refresh, no file, undecodable or invalid file) it invokes the fetcher  *)
(* exactly once.                                                           *)
(***************************************************************************)
C4_FetcherInvocations ==
    /\ fetcher_calls <= 1
    /\ pc = "returned" =>
          IF EntryHit
          THEN /\ fetcher_calls = 0
               /\ result = CachePath(window)
               /\ files = entry_files
               /\ failures_csv = entry_failures
          ELSE fetcher_calls = 1

\* A second call is served from the entry that the first call has written.
C4_Witness ==
    /\ pc = "returned"
    /\ ncalls = 2
    /\ EntryHit
    /\ entry_files[CachePath(window)] = Dumps(ValidDoc(2))
    /\ fetcher_calls = 0

(***************************************************************************)
(* C5: with refresh false and a cache file that is undecodable or of the   *)
(* wrong shape, the call appends exactly one Failure Record for the window *)
(* and then calls the fetcher exactly once; when the fetch returns a valid *)
(* payload the call has added exactly one record in total, the cache file  *)
(* holds the fetched payload and the cache path is returned. Both kinds of *)
(* invalid entry take the same course.                                     *)
(***************************************************************************)
C5_CorruptEntryRefetch ==
    (pc \notin {"idle", "entered"} /\ EntryInvalid) =>
        LET before == Records(entry_failures)
            after == Records(failures_csv)
        IN  /\ fetcher_calls = 1
            /\ Len(after) >= Len(before) + 1
            /\ IsPrefix(before, after)
            /\ after[Len(before) + 1].start_date = window[1]
            /\ after[Len(before) + 1].end_date = window[2]
            /\ after[Len(before) + 1].error \in CacheErrors
            /\ pc \in {"fetching", "fetched", "tmp_open", "tmp_written"} =>
                  Len(after) = Len(before) + 1
            /\ (pc = "returned" /\ fetched.kind = "return"
                    /\ ValidateError(fetched.doc) = "ok") =>
                  /\ Len(after) = Len(before) + 1
                  /\ files[CachePath(window)] = Dumps(fetched.doc)
                  /\ result = CachePath(window)

\* A wrong-shape entry has been replaced by a freshly fetched payload.
C5_Witness ==
    /\ pc = "returned"
    /\ ~refresh
    /\ entry_files[CachePath(window)] = Dumps(WrongShapeDoc)
    /\ fetched = Returned(ValidDoc(2))
    /\ files[CachePath(window)] = Dumps(ValidDoc(2))
    /\ result = CachePath(window)

(***************************************************************************)
(* C6: ingest calls fetch_or_load_chunk exactly once for every window of   *)
(* the partition, in increasing date order, whichever earlier windows      *)
(* returned None; cache_paths gets exactly one entry (the window's cache   *)
(* path or None) per window, in window order, and the run then goes on to  *)
(* flatten the windows that succeeded.                                     *)
(***************************************************************************)
NotNone(paths) == SelectSeq(paths, LAMBDA path : path # None)

C6_EveryWindowOnce ==
    ingest_pc # "off" =>
        /\ IsPrefix(called, chunks)
        /\ \A i, j \in 1..Len(chunks) : i < j => chunks[i][2] < chunks[j][1]
        /\ Len(called) = Len(cache_paths) + (IF pc = "idle" THEN 0 ELSE 1)
        /\ \A i \in 1..Len(cache_paths) :
              cache_paths[i] \in {None, CachePath(chunks[i])}
        /\ ingest_pc = "loop" => ENABLED IngestNext
        /\ ingest_pc = "flattened" =>
              /\ called = chunks
              /\ Len(cache_paths) = Len(chunks)
              /\ flattened = NotNone(cache_paths)

\* The first window failed, the second was still fetched and flattened.
C6_Witness ==
    /\ ingest_pc = "flattened"
    /\ Len(chunks) = 2
    /\ cache_paths[1] = None
    /\ cache_paths[2] = CachePath(chunks[2])
    /\ flattened = <<CachePath(chunks[2])>>

(***************************************************************************)
(* C7: whenever fetch_or_load_chunk returns None for a window, a row       *)
(* (start_date, end_date, error text) for exactly that window has been     *)
(* appended to failures.csv during that call; hence the number of None     *)
(* results of a run is at most the number of rows the run has added.       *)
(***************************************************************************)
C7_NoFailureLost ==
    ingest_pc # "off" =>
        LET added == Len(Records(failures_csv)) - Len(Records(run_entry_failures))
            nones == Len(cache_paths) - Len(NotNone(cache_paths))
            csv_rows == failures_csv.rows
        IN  /\ (pc = "returned" /\ result = None) =>
                  /\ FetchError(fetched) # Ok
                  /\ IsPrefix(entry_failures.rows, csv_rows)
                  /\ Len(Records(failures_csv)) > Len(Records(entry_failures))
                  /\ csv_rows[Len(csv_rows)] = FailureRow(window, FetchError(fetched))
                  /\ nones + 1 <= added
            /\ nones <= added

\* Both windows of a run have failed.
C7_Witness ==
    /\ ingest_pc = "flattened"
    /\ cache_paths = <<None, None>>

(***************************************************************************)
(* C8: fetch_chunk retries transient failures (network exception, 429,     *)
(* 5xx, in any mix) on one attempt budget: at most 6 requests, a sleep of  *)
(* 2^k seconds after the k-th failed attempt for k = 0..4 (1, 2, 4, 8,     *)
(* 16), no sleep after the 6th failure but an exception, and on a 200 the  *)
(* payload is returned with no further request.                            *)
(***************************************************************************)
IsTransientOutcome(status) ==
    status = -1 \/ status = 429 \/ status \in 500..599

IsFatalStatus(status) ==
    /\ status # -1
    /\ status \notin 200..299
    /\ status # 429
    /\ status \notin 500..599

C9_FatalNotRetried ==
    /\ (pc = "fetching" /\ requests > 0) => ~IsFatalStatus(last_status)
    /\ (pc = "fetched" /\ IsFatalStatus(last_status)) =>
          /\ fetched = Raised(ApiError(last_status))
          /\ requests = Len(sleeps) + 1
          /\ requests = attempt + 1
    /\ (pc = "returned" /\ fetched.kind = "raise"
            /\ IsFatalStatus(fetched.error.status)) =>
          /\ result = None
          /\ fetcher_calls = 1
          /\ files = entry_files
          /\ Records(failures_csv) =
                Records(IF EntryInvalid
                        THEN ReadCachePayload(entry_files[CachePath(window)],
                                              entry_failures, window).csv
                        ELSE entry_failures)
                    \o <<FailureRow(window, fetched.error)>>

\* A 404 has answered the third request.
C9_Witness ==
    /\ pc = "fetched"
    /\ last_status = 404
    /\ requests = 3
    /\ sleeps = <<1, 2>>

(***************************************************************************)
(* C10: for every input that has all required columns, no two rows of the  *)
(* Approaches table returned by process_dataframe share an approach_id,    *)
(* also when input rows with the same object id and epoch differ in other  *)
(* fields.                                                                 *)
(***************************************************************************)
C10_ApproachIdUnique ==
    build_pc = "processed" =>
        \A i, j \in 1..Len(approaches) :
            i # j => approaches[i].approach_id # approaches[j].approach_id

(***************************************************************************)
(* C15: _validate_payload accepts a decoded document if and only if it is  *)
(* a mapping that has the key near_earth_objects whose value is a mapping  *)
(* from date strings to lists of object records; a list document, a        *)
(* missing key, a value that is not a mapping and a per-day value that is  *)
(* not a list are each rejected.                                           *)
(***************************************************************************)
Conforms(doc) == doc.type = "dict" /\ doc.neo = "dict" /\ doc.day = "list"

C15_ValidatorAcceptsConforming ==
    (pc \in {"tmp_open", "tmp_written", "returned"} /\ fetched.kind = "return") =>
        (ValidateError(fetched.doc) = "ok" <=> Conforms(fetched.doc))

(***************************************************************************)
(* C18: in a run of ingest with refresh=False that follows an earlier run  *)
(* over the same range (finished or terminated), the fetcher is invoked    *)
(* exactly for the windows that had no valid cache entry when the run      *)
(* began; a window with a valid entry is not fetched and its cache file    *)
(* stays unchanged, so after a fully successful run nothing is fetched.    *)
(***************************************************************************)
C18_Resumption ==
    run = 2 =>
        /\ \A w \in Windows :
              IsValidText(run_entry_files[CachePath(w)]) =>
                  files[CachePath(w)] = run_entry_files[CachePath(w)]
        /\ (ingest_pc = "loop" /\ pc \notin {"idle", "entered"}) =>
              /\ fetcher_calls <= 1
              /\ fetcher_calls = 0 <=> IsValidText(run_entry_files[CachePath(window)])

\* The second run has ended: it found the first window cached by the first
\* run and fetched the second window, which the first run had not cached.
C18_Witness ==
    /\ run = 2
    /\ ingest_pc = "flattened"
    /\ persisted[<<RangeStart, RangeStart + DefaultDays - 1>>] # NoDoc
    /\ IsValidText(run_entry_files[CachePath(<<RangeStart, RangeStart + DefaultDays - 1>>)])
    /\ ~IsValidText(run_entry_files[CachePath(<<RangeStart + DefaultDays, RangeEnd>>)])
    /\ IsValidText(files[CachePath(<<RangeStart + DefaultDays, RangeEnd>>)])

(***************************************************************************)
(* C19: once fetch_or_load_chunk has persisted payload p for window w,     *)
(* every later read of w's cache entry decodes to a payload equal to p     *)
(* (until a later fetch for w persists another payload): a later call with *)
(* refresh=False returns the entry without fetching.                       *)
(***************************************************************************)
C19_CacheRoundTrip ==
    /\ \A w \in Windows :
          persisted[w] # NoDoc =>
              ReadCachePayload(files[CachePath(w)], failures_csv, w).payload = persisted[w]
    /\ (pc = "returned" /\ ~refresh /\ entry_files[CachePath(window)] = files[CachePath(window)]
            /\ persisted[window] # NoDoc) =>
          /\ fetcher_calls = 0
          /\ result = CachePath(window)
          /\ Loads(entry_files[CachePath(window)]) = [ok |-> TRUE, doc |-> persisted[window]]

\* A second call for a window finds the payload the first call persisted.
C19_Witness ==
    /\ ncalls = 2
    /\ pc = "returned"
    /\ ~refresh
    /\ fetcher_calls = 0
    /\ persisted[window] = ValidDoc(2)

(***************************************************************************)
(* C11: approach_id is a function of the row: '<id>_<epoch as integer>'    *)
(* when the epoch is present, else '<id>_<8 hex digits>' with digits that  *)
(* depend only on id, close_approach_date, close_approach_date_full,       *)
(* miss_distance_km and velocity_km_s; rows that agree on these inputs get *)
(* the same approach_id whatever their position and their other fields.    *)
(***************************************************************************)
SameIdentityInputs(r1, r2) ==
    /\ r1.id = r2.id
    /\ r1.epoch_date_close_approach = r2.epoch_date_close_approach
    /\ r1.close_approach_date = r2.close_approach_date
    /\ r1.close_approach_date_full = r2.close_approach_date_full
    /\ r1.miss_distance_km = r2.miss_distance_km
    /\ r1.velocity_km_s = r2.velocity_km_s

C11_ApproachIdDeterministic ==
    build_pc = "processed" =>
        /\ Len(df_approach_id) = Len(df)
        /\ \A i \in 1..Len(df) :
              LET r == df[i]
                  a == df_approach_id[i]
              IN  /\ a.id = r.id
                  /\ ~r.epoch_date_close_approach.nan =>
                        a.kind = "epoch" /\ a.epoch = r.epoch_date_close_approach.v
                  /\ r.epoch_date_close_approach.nan =>
                        /\ a.kind = "md5"
                        /\ Len(a.digest) = 8
                        /\ \A k \in 1..8 : a.digest[k] \in 0..15
        /\ \A i, j \in 1..Len(df) :
              SameIdentityInputs(df[i], df[j]) => df_approach_id[i] = df_approach_id[j]
        /\ \A k \in 1..Len(approaches) :
              \E i \in 1..Len(df) :
                  /\ approaches[k].approach_id = df_approach_id[i]
                  /\ approaches[k].id = df[i].id
                  /\ approaches[k].epoch_date_close_approach = df[i].epoch_date_close_approach
                  /\ approaches[k].close_approach_date = df[i].close_approach_date
                  /\ approaches[k].miss_distance_km = df[i].miss_distance_km

\* Two rows without epoch at different positions agree on the five inputs
\* and differ in name; a third one differs in its close approach date.
C11_Witness ==
    /\ build_pc = "processed"
    /\ Len(df) = 3
    /\ df[1].epoch_date_close_approach = NaN
    /\ df[3].epoch_date_close_approach = NaN
    /\ SameIdentityInputs(df[1], df[3])
    /\ df[1].name # df[3].name
    /\ df[2].epoch_date_close_approach = NaN
    /\ df[2].close_approach_date # df[1].close_approach_date
    /\ df_approach_id[2] # df_approach_id[1]

(***************************************************************************)
(* C12 as stated: the Objects table has exactly one row per distinct id of *)
(* the input, and every static attribute, the hazard flag included, holds  *)
(* the first non-null value of the object's input rows in row order.       *)
(***************************************************************************)
RowsOf(id) == {i \in 1..Len(df) : df[i].id = id}
First(S) == CHOOSE i \in S : \A j \in S : i <= j
OneRowPerObject ==
    /\ Len(objects) = Cardinality({df[i].id : i \in 1..Len(df)})
    /\ \A i \in 1..Len(df) : \E k \in 1..Len(objects) : objects[k].id = df[i].id
    /\ \A k, l \in 1..Len(objects) : objects[k].id = objects[l].id => k = l
NameIsFirstNonNull(o) ==
    LET named == {i \in RowsOf(o.id) : df[i].name # NA}
    IN  IF named = {} THEN o.name = NA ELSE o.name = df[First(named)].name
DiameterIsFirstNonNull(o) ==
    LET sized == {i \in RowsOf(o.id) : ~df[i].diameter_km_min.nan}
    IN  IF sized = {} THEN o.diameter_km_min = NaN
        ELSE o.diameter_km_min = df[First(sized)].diameter_km_min

LogMatches(log, source) ==
    /\ log.na <=> (source.nan \/ source.v <= 0)
    /\ ~log.na => log = Log10(source.v)

C13_SafeLogColumns ==
    /\ build_pc # "raised"
    /\ build_pc = "processed" =>
          /\ Len(approaches) > 0
          /\ Len(objects) > 0
          /\ \A i \in 1..Len(approaches) :
                LogMatches(approaches[i].log_miss_distance_km, approaches[i].miss_distance_km)
          /\ \A k \in 1..Len(objects) :
                LogMatches(objects[k].log_diameter_mid_km, objects[k].diameter_mid_km)

\* Miss distances 0, -10 and 10 and an object whose midpoint diameter is 0.
C13_Witness ==
    /\ build_pc = "processed"
    /\ Len(approaches) = 3
    /\ approaches[1].miss_distance_km = Num(0)
    /\ approaches[1].log_miss_distance_km = NoLog
    /\ approaches[2].miss_distance_km = Num(-10)
    /\ approaches[3].log_miss_distance_km = Log10(10)
    /\ \E k \in 1..Len(objects) :
          objects[k].diameter_mid_km = Num(0) /\ objects[k].log_diameter_mid_km = NoLog

(***************************************************************************)
(* C14: when the input has no rows or lacks a required column, build_tables*)
(* raises before it creates the output directory or writes any file, and   *)
(* process_dataframe called on a table that lacks required columns raises  *)
(* an error naming those columns and returns no tables.                    *)
(***************************************************************************)
C14_SchemaViolationAborts ==
    /\ (bt_pc # "off" /\ (Len(df) = 0 \/ missing # {})) =>
          /\ bt_pc \in {"start", "raised"}
          /\ build_pc = "off"
          /\ outdir = NoOutdir
          /\ objects = <<>> /\ approaches = <<>>
    /\ bt_pc = "raised" => raised.type = "ValueError"
    /\ outdir # NoOutdir => (Len(df) > 0 /\ missing = {})
    /\ (bt_pc = "off" /\ build_pc \in {"processed", "raised"}) =>
          IF missing # {}
          THEN /\ build_pc = "raised"
               /\ raised.type = "ValueError"
               /\ {raised.columns[i] : i \in 1..Len(raised.columns)} = missing
               /\ Len(raised.columns) = Cardinality(missing)
               /\ objects = <<>> /\ approaches = <<>>
          ELSE build_pc = "processed"

\* build_tables has raised on an input with rows that lacks two columns.
C14_Witness ==
    /\ bt_pc = "raised"
    /\ Len(df) > 0
    /\ missing = {"id", "miss_distance_km"}
    /\ raised = [type |-> "ValueError", columns |-> <<"id", "miss_distance_km">>]

(***************************************************************************)
(* C16: build_dataframe_from_cache emits exactly one row per (object       *)
(* record, close-approach entry) pair over all payloads, date buckets and  *)
(* objects, in traversal order; with a filter other than "all" (in any     *)
(* case) only the entries whose orbiting_body equals the filter exactly    *)
(* are emitted, with "all" every entry; an object without close-approach   *)
(* entries contributes no row.                                             *)
(***************************************************************************)
EntriesOf(p, b, o) == data[p][b].items[o].close_approach_data.items
Pairs ==
    UNION {UNION {UNION {{<<p, b, o, a>> : a \in 1..Len(EntriesOf(p, b, o))} :
                            o \in 1..Len(data[p][b].items)} :
                     b \in 1..Len(data[p])} :
              p \in 1..Len(data)}
EntryAt(x) == EntriesOf(x[1], x[2], x[3])[x[4]]
Emitted ==
    {x \in Pairs : orbiting_body \in {"all", "ALL"}
                       \/ EntryAt(x).orbiting_body = orbiting_body}
Before(x, y) ==
    \E k \in 1..4 : x[k] < y[k] /\ \A l \in 1..(k - 1) : x[l] = y[l]
Rank(x) == 1 + Cardinality({y \in Emitted : Before(y, x)})

C16_OneRowPerApproach ==
    fl_pc = "done" =>
        /\ Len(rows) = Cardinality(Emitted)
        /\ \A x \in Emitted :
              LET row == rows[Rank(x)]
              IN  /\ row.id = data[x[1]][x[2]].items[x[3]].id
                  /\ row.epoch_date_close_approach = EntryAt(x).epoch_date_close_approach
                  /\ row.orbiting_body = EntryAt(x).orbiting_body

\* Two payloads with four approach entries between them, two of them around
\* Earth, flattened with the filter "Earth".
C16_Witness ==
    /\ fl_pc = "done"
    /\ orbiting_body = "Earth"
    /\ Len(data) = 2
    /\ Cardinality(Pairs) = 4
    /\ Len(rows) = 2
    /\ rows[1].orbiting_body = "Earth"

(***************************************************************************)
(* C17: for every payload the validator accepts, build_dataframe_from_cache*)
(* completes without raising and every row has the same columns; a nested  *)
(* structure that is missing, null or malformed (estimated_diameter, its   *)
(* unit maps, close_approach_data, relative_velocity, miss_distance)       *)
(* gives null fields, never an error.                                      *)
(***************************************************************************)
C17_FlattenNeverRaises ==
    /\ fl_pc # "raised"
    /\ fl_pc = "done" =>
          \A k \in 1..Len(rows) :
              DOMAIN rows[k] = {"id", "diameter_km_min", "epoch_date_close_approach",
                                "velocity_km_s", "miss_distance_km", "orbiting_body"}

(***************************************************************************)
(* C20: for each orbiting body and each of the four metrics, the top_n     *)
(* rows are the first min(50, n) rows of the stable sort of that body's    *)
(* approaches by the metric (ascending for miss distance, descending for   *)
(* the others): rows are in metric order and rows with equal metric value  *)
(* are in their original row order.                                        *)
(***************************************************************************)
C20_TopNStable ==
    agg_pc = "done" =>
        \A g \in 1..Len(top_rows) :
            LET ranked == top_rows[g].ranked
                metric == CHOOSE m \in {Metrics[k] : k \in 1..Len(Metrics)} :
                              m.name = top_rows[g].metric
                n == Cardinality(Subset(enriched, top_rows[g].orbiting_body))
            IN  /\ Len(ranked) = Min(50, n)
                /\ \A i \in 1..Len(ranked) :
                      enriched[ranked[i]].orbiting_body = top_rows[g].orbiting_body
                /\ InMetricOrder(enriched, ranked, metric)
                /\ \A i, j \in 1..Len(ranked) :
                      (i < j /\ MetricValue(enriched[ranked[i]], metric.col)
                                   = MetricValue(enriched[ranked[j]], metric.col))
                          => ranked[i] < ranked[j]

(***************************************************************************)
(* C30: chunk_date_ranges terminates for every start date, end date and    *)
(* days >= 1 without raising: the starts of the windows yielded increase   *)
(* strictly, and once the generator has ended it has yielded exactly       *)
(* ceil(N / days) windows, N the number of days in [start_date, end_date]  *)
(* (none when start_date > end_date).                                      *)
(***************************************************************************)
DaysInRange == IF start_date > end_date THEN 0 ELSE end_date - start_date + 1

C30_ChunkerTerminates ==
    /\ gen_pc # "raised"
    /\ \A i \in 1..(Len(yielded) - 1) : yielded[i][1] < yielded[i + 1][1]
    /\ gen_pc = "exhausted" =>
           Len(yielded) = (DaysInRange + days - 1) \div days

(***************************************************************************)
(* C26: failures.csv is append-only over any sequence of pipeline          *)
(* operations: a step that records failures adds one row per failure at    *)
(* the end of the file and changes, reorders or removes no existing row    *)
(* (a later successful fetch of a window leaves its earlier rows in        *)
(* place), and the header row appears exactly once, as the first line,     *)
(* written by the write that creates the file.                             *)
(***************************************************************************)
HeaderOnce(csv) ==
    IF csv.exists
    THEN /\ Len(csv.rows) >= 2
         /\ csv.rows[1] = HeaderRow
         /\ \A i \in 2..Len(csv.rows) : ~csv.rows[i].header
    ELSE csv.rows = <<>>

AppendedTo(old, new) ==
    \/ new = old
    \/ /\ new.exists
       /\ LET base == IF old.exists THEN old.rows ELSE <<HeaderRow>>
          IN  /\ IsPrefix(base, new.rows)
              /\ Len(new.rows) > Len(base)
              /\ \A i \in (Len(base) + 1)..Len(new.rows) : ~new.rows[i].header

C26_FailuresAppendOnly ==
    /\ [](HeaderOnce(failures_csv) /\ HeaderOnce(default_failures_csv))
    /\ [][/\ AppendedTo(failures_csv, failures_csv')
          /\ AppendedTo(default_failures_csv, default_failures_csv')]_vars

\* A window that failed in the first run is fetched and cached by the
\* second; the row of the first run is still in failures.csv.
C26_Witness ==
    /\ run = 2
    /\ ingest_pc = "flattened"
    /\ \E i \in 1..Len(chunks) :
          /\ cache_paths[i] = CachePath(chunks[i])
          /\ persisted[chunks[i]] # NoDoc
          /\ \E k \in 1..Len(run_entry_failures.rows) :
                /\ run_entry_failures.rows[k] = FailureRow(chunks[i], ApiError(404))
                /\ failures_csv.rows[k] = run_entry_failures.rows[k]

(***************************************************************************)
(* C29: every Failure Record produced during a run ingest(..., raw_dir=D), *)
(* the records for cache entries found unreadable while the payloads are   *)
(* read back for flattening included, is appended to failures.csv inside   *)
(* D, for any D: once the run has flattened, D/failures.csv has gained a   *)
(* row for every window that failed and every entry the flattener skipped  *)
(* as unreadable, and no failures.csv outside D has been written.          *)
(***************************************************************************)
Unreadable ==
    {i \in 1..Len(cache_paths) :
        /\ cache_paths[i] # None
        /\ files[cache_paths[i]] # Absent
        /\ \A k \in 1..Len(flattened) : flattened[k] # cache_paths[i]}

C29_FailuresInRawDir ==
    ingest_pc = "flattened" =>
        /\ Len(Records(failures_csv)) - Len(Records(run_entry_failures))
               >= (Len(cache_paths) - Len(NotNone(cache_paths))) + Cardinality(Unreadable)
        /\ raw_dir_is_default \/ default_failures_csv = NoFailuresFile

(***************************************************************************)
(* C28: a failed fetch never changes the cache: when the fetcher raises or *)
(* returns a payload that fails validation, fetch_or_load_chunk returns    *)
(* None and leaves every file of the cache directory as it was on entry    *)
(* (the window's entry unchanged, no file created at the final path, no    *)
(* '.tmp' file left), also with refresh=true on a valid entry and with a   *)
(* corrupt entry; the call only appends Failure Records.                   *)
(***************************************************************************)
FailsValidation(doc) == doc.type # "dict" \/ doc.neo # "dict"

FetchFailed ==
    \/ fetched.kind = "raise"
    \/ fetched.kind = "return" /\ FailsValidation(fetched.doc)

BeforeDedupe == [i \in 1..Len(df) |-> ApproachRow(df[i])]

Collides ==
    \E i, j \in 1..Len(df) :
        i # j /\ BeforeDedupe[i].approach_id = BeforeDedupe[j].approach_id

Removed(i) == Collides /\ \E j \in 1..(i - 1) : BeforeDedupe[j] = BeforeDedupe[i]

C24_ExactDuplicatesOnly ==
    build_pc = "processed" =>
        /\ \E f \in [1..Len(approaches) -> 1..Len(df)] :
              /\ \A k, l \in 1..Len(approaches) : k < l => f[k] < f[l]
              /\ {f[k] : k \in 1..Len(approaches)} = {i \in 1..Len(df) : ~Removed(i)}
              /\ \A k \in 1..Len(approaches) : approaches[k] = BeforeDedupe[f[k]]
        /\ ~Collides => approaches = BeforeDedupe

\* Of three rows with one approach_id the third repeats the first and is
\* removed; the second differs from the first and is kept.
C24_Witness ==
    /\ build_pc = "processed"
    /\ Len(df) = 3
    /\ BeforeDedupe[3] = BeforeDedupe[1]
    /\ BeforeDedupe[2] # BeforeDedupe[1]
    /\ BeforeDedupe[2].approach_id = BeforeDedupe[1].approach_id
    /\ approaches = <<BeforeDedupe[1], BeforeDedupe[2]>>

(***************************************************************************)
(* C22: the duplicate_approach_id_count that build_tables writes to        *)
(* metadata.json is the number of distinct approach_id values that occur   *)
(* in more than one row of the approaches before de-duplication, whether   *)
(* or not a row was dropped; it is 0 exactly when no approach_id collides. *)
(***************************************************************************)
CollidingIds ==
    {BeforeDedupe[i].approach_id :
        i \in {k \in 1..Len(df) :
                  \E j \in 1..Len(df) :
                      j # k /\ BeforeDedupe[j].approach_id = BeforeDedupe[k].approach_id}}

C22_DuplicateCountRecorded ==
    bt_pc = "written" =>
        /\ metadata.duplicate_approach_id_count = Cardinality(CollidingIds)
        /\ metadata.duplicate_approach_id_count = 0 <=> ~Collides

\* Three rows with one approach_id, the third a repetition of the first:
\* a row was dropped and the count is 1.
C22_Witness ==
    /\ bt_pc = "written"
    /\ Len(df) = 3
    /\ Len(approaches) = 2
    /\ approaches[1].approach_id = approaches[2].approach_id
    /\ metadata.duplicate_approach_id_count = 1

(***************************************************************************)
(* C23: the orbiting_body_filter recorded in the RunMetadata of a build is *)
(* the filter that produced the build's input: for a pipeline run that     *)
(* ingests with filter F and builds the tables from that output,           *)
(* metadata.json records F.                                                *)
(***************************************************************************)
C23_FilterRecorded ==
    bt_pc = "written" => metadata.orbiting_body_filter = orbiting_body

(***************************************************************************)
(* C25: in every Objects row the derived attributes agree with the row's   *)
(* own diameters, also for an object with several input rows whose         *)
(* diameters differ or are missing: diameter_mid_km is the arithmetic mean *)
(* of the row's diameter_km_min and diameter_km_max (missing when one of   *)
(* them is), and diameter_uncertainty_ratio_km is null whenever the row's  *)
(* diameter_mid_km is zero.                                                *)
(***************************************************************************)
MidIsMeanOfOwn(o) == o.diameter_mid_km = DiameterMid(o)

RatioNullAtZero(o) ==
    (~o.diameter_mid_km.nan /\ o.diameter_mid_km.v = 0) => o.diameter_uncertainty_ratio_km.na

C25_DerivedFromOwnDiameters ==
    build_pc = "processed" =>
        \A k \in 1..Len(objects) :
            MidIsMeanOfOwn(objects[k]) /\ RatioNullAtZero(objects[k])

(***************************************************************************)
(* C27: every id that occurs in the Approaches table returned by           *)
(* process_dataframe occurs in exactly one row of the Objects table, and   *)
(* every Objects id occurs in at least one Approaches row; hence the left  *)
(* join of approaches to objects on id in compute_aggregates yields        *)
(* exactly one joined row per approach row, in the same order.             *)
(***************************************************************************)
ObjectsOf(id) == {k \in 1..Len(objects) : objects[k].id = id}

C27_JoinKeepsRows ==
    /\ build_pc = "processed" =>
           /\ \A i \in 1..Len(approaches) : Cardinality(ObjectsOf(approaches[i].id)) = 1
           /\ \A k \in 1..Len(objects) :
                 \E i \in 1..Len(approaches) : approaches[i].id = objects[k].id
    /\ agg_pc = "grouped" =>
           /\ Len(merged) = Len(approaches)
           /\ \A i \in 1..Len(merged) :
                 /\ merged[i].approach = approaches[i]
                 /\ \E k \in ObjectsOf(approaches[i].id) :
                       merged[i] = MergedRow(approaches[i], objects[k])

\* Three approaches, two of one object and one without id, joined to the
\* two objects.
C27_Witness ==
    /\ agg_pc = "grouped"
    /\ Len(approaches) = 3
    /\ Len(objects) = 2
    /\ Len(merged) = 3
    /\ approaches[1].id = NullId
    /\ approaches[2].id = approaches[3].id
    /\ approaches[2].id # NullId

(***************************************************************************)
(* C21: in the hazard_rate_size aggregate there is one row per (orbiting   *)
(* body, size bin) group; its total is the number of approach rows that    *)
(* fall in the group (by the row's orbiting body and the size bin of its   *)
(* object's diameter), its hazardous the number of those whose hazard flag *)
(* is true, 0 <= hazardous <= total, and hazard_rate is hazardous / total; *)
(* the totals sum to the number of rows of the Approaches table.           *)
(***************************************************************************)
ObjectOf(id) == objects[CHOOSE k \in 1..Len(objects) : objects[k].id = id]

InGroup(g) ==
    {i \in 1..Len(approaches) :
        /\ approaches[i].orbiting_body = g.orbiting_body
        /\ SizeBin(ObjectOf(approaches[i].id).diameter_mid_m) = g.size_bin_m}

RECURSIVE SumTotals(_)
SumTotals(S) ==
    IF S = {} THEN 0
    ELSE LET g == CHOOSE x \in S : TRUE IN g.total + SumTotals(S \ {g})

C21_HazardRateRecomputed ==
    agg_pc = "grouped" =>
        /\ \A g, h \in hazard_rate :
              (g.orbiting_body = h.orbiting_body /\ g.size_bin_m = h.size_bin_m) => g = h
        /\ \A g \in hazard_rate :
              /\ g.total = Cardinality(InGroup(g))
              /\ g.hazardous =
                     Cardinality({i \in InGroup(g) :
                                     approaches[i].is_potentially_hazardous_asteroid})
              /\ 0 <= g.hazardous /\ g.hazardous <= g.total
              /\ g.hazard_rate = Rate(g.hazardous, g.total)
        /\ SumTotals(hazard_rate) = Len(approaches)

\* Two approaches of one object in one group, both hazardous, and a third
\* approach in another group that is not.
C21_Witness ==
    /\ agg_pc = "grouped"
    /\ Len(approaches) = 3
    /\ approaches[1].id = approaches[2].id
    /\ \E g, h \in hazard_rate :
          /\ g.orbiting_body = "Earth" /\ g.size_bin_m = "50-140m"
          /\ g.total = 2 /\ g.hazardous = 2
          /\ h.orbiting_body = "Earth" /\ h.size_bin_m = "<50m"
          /\ h.total = 1 /\ h.hazardous = 0

====
